---- MODULE Spec2Model ----
(***************************************************************************)
(* A model of the event-driven automation core of careOps: the job queue   *)
(* (lib/queue/automationQueue.js, lib/queue/index.js), the event bus       *)
(* (lib/events/eventBus.js), the automation handlers                       *)
(* (lib/events/handlers/*.js), the job processors                          *)
(* (lib/queue/automationWorker.js) and the domain operations that feed     *)
(* them (booking.service.js, public.service.js, inbox.service.js).         *)
(*                                                                         *)
(* Every asynchronous function is cut at its awaits: one action is the     *)
(* code that runs between two awaits of one invocation, so two invocations *)
(* interleave exactly where the JavaScript event loop lets them.           *)
(***************************************************************************)
EXTENDS Integers, Sequences, FiniteSets, TLC

(***************************************************************************)
(* Bounds of the model.                                                    *)
(***************************************************************************)
MaxTime == 1          \* the clock (Date.now()) runs over 0..MaxTime
MaxJobs == 2          \* jobs kept by the broker at any one time
MaxItems == 1         \* inventory items named by one public booking request
MaxMiddlewares == 2   \* middlewares registered with EventBus.use
MaxSends == 2         \* sendMessage calls followed
MaxDeliveries == 2    \* deliveries of one createFormSubmission job
MaxErrHandlers == 2   \* handlers subscribed to one event name beside the bus's own
MaxRouted == 4        \* emissions of `error' are counted modulo MaxRouted + 1
MaxPending == 3       \* caught errors waiting: MaxPending stands for that many or more
MaxOverdueEvents == 2 \* FORM_OVERDUE events delivered for one form submission

Null == "null"
NoConv == "noConversation"        \* data.conversationId is undefined
NoJobId == "noJobId"              \* options.jobId is undefined
Convs == {"c1", "c2"}
JobNames == {"sendBookingReminder", "sendFormReminder"}
OptJobIds == {NoJobId, "k1"}
Delays == {0, 1}

VARIABLES
    \* ---- broker and automation queue
    redisAvailable,   \* config/redis.js: redisAvailable
    now,              \* Date.now()
    jobs,             \* the broker's jobs: job id -> [name, conv, state, due]
    nextAuto,         \* the broker's counter for generated job ids
    cancel,           \* the running cancelScheduledJobsByConversation invocation
    \* ---- domain operations (booking.service create, createPublicBooking,
    \*      createContact, sendStaffReply)
    bookings,         \* the operations whose booking row is committed
    op,               \* operation -> [kind, pc, tx, items, sched, avail, results, enq]
    emitted,          \* the events emitted: [op, event, tx at the time of emit]
    \* ---- message-sending event handlers (lib/events/index.js)
    contact,          \* the contact row: [exists, email, phone]
    integrations,     \* the channels with an active integration
    integrationLog,   \* integrationLog rows: [to, word] -> number of rows
    sent,             \* messages handed to the provider: [word, channel] -> number
    handler,          \* handler invocation -> [pc, word, checked, ch]
    \* ---- the checkFormOverdue processor
    formStatus,       \* formSubmission -> status
    overdueRun,       \* delivery of a checkFormOverdue job -> [pc, form]
    overdueEmits,     \* formSubmission -> number of FORM_OVERDUE events emitted
    overdueWrites,    \* formSubmission -> number of updates to OVERDUE
    \* ---- the INVENTORY_LOW handler
    alerts,           \* item -> number of ACTIVE INVENTORY_LOW alerts
    lowHandler,       \* handler invocation -> [pc, item]
    \* ---- the event bus (lib/events/eventBus.js)
    middlewares,      \* this.middlewares: what each does with its continuation
    listeners,        \* the emitter's listeners of the event, in subscription order
    dispatch,         \* the emit call: [pc, snap, idx, failed, chain, rounds]
    invoked,          \* the handlers invoked by the emit call, in order
    running,          \* the handlers whose awaited work has not finished
    errors,           \* number of errors dispatched on the `error' event
    \* ---- the environment of the process
    zone,             \* the time zone of the process (TZ)
    \* ---- the reminder path (sendBookingReminder job, SEND_REMINDER handler)
    bookingRow,       \* the booking's row: its status, or "absent"
    reminder,         \* the delivery: [pc, snapshot, current, booking, todo]
    reminded,         \* the channels a reminder was sent on
    \* ---- the server process (startServer, shutdown)
    proc,             \* [state, code]: where the process is in its life
    \* ---- the notification gateway (integrations: sendMessage and adapters)
    gwIntegration,    \* message type -> provider of the active integration
    gwClients,        \* the message types with a cached integration client
    gwLogs,           \* IntegrationLog rows: [status, retryCount, error]
    gw,               \* the sendMessage call: [pc, type, attempt, raw, code,
                      \*   result, error, delivered, calls]
    \* ---- the createFormSubmission processor
    linkedForms,      \* the forms linked to the booking's type
    formJob,          \* the delivery: [pc, forms, created, events, threw]
    \* ---- the FORM_OVERDUE handler
    onOverdue,        \* formSubmission -> [delivered, read, create, send,
                      \*   alerts, reminders]: handlers at each await, totals
    \* ---- EventBus.emit's arguments
    lastEmit,         \* [event, payload, warned, subscribed] of the emit call
    \* ---- sendStaffReply
    reply,            \* [pc, error, channel, messages, staffReplied, atSend,
                      \*   handler, direct, deleted, cancelledCount]
    \* ---- the sendFormReminder processor
    formReminder,     \* formSubmission -> [pc, seen, event]
    \* ---- the `error' event of the bus
    errBus            \* [pc, handlers, errorHandlers, pending, routed]

queueVars == <<redisAvailable, now, jobs, nextAuto, cancel>>
opVars == <<bookings, op, emitted>>
msgVars == <<contact, integrations, integrationLog, sent, handler>>
formVars == <<formStatus, overdueRun, overdueEmits, overdueWrites>>
alertVars == <<alerts, lowHandler>>
busVars == <<middlewares, listeners, dispatch, invoked, running, errors>>
envVars == <<zone>>
remVars == <<bookingRow, reminder, reminded>>
gwVars == <<gwIntegration, gwClients, gwLogs, gw>>
fjVars == <<linkedForms, formJob>>
lateVars == <<onOverdue, lastEmit, reply, formReminder, errBus>>
tailVars == <<envVars, remVars, proc, gwVars, fjVars, lateVars>>

vars == <<queueVars, opVars, msgVars, formVars, alertVars, busVars, tailVars>>

\* what the actions of one part leave alone
handlerVars == <<msgVars, formVars, alertVars, busVars, tailVars>>
exceptMsg == <<queueVars, opVars, formVars, alertVars, busVars, tailVars>>
exceptForm == <<queueVars, opVars, msgVars, alertVars, busVars, tailVars>>
exceptAlert == <<queueVars, opVars, msgVars, formVars, busVars, tailVars>>
exceptBus == <<queueVars, opVars, msgVars, formVars, alertVars, tailVars>>

(***************************************************************************)
(* Job identities.  BullMQ job ids are strings; the three shapes the code  *)
(* can hand to the broker are kept apart by `kind'.                        *)
(***************************************************************************)
DerivedId(conv, jobName, t) ==
    [kind |-> "derived", conv |-> conv, name |-> jobName, t |-> t]
GivenId(k) == [kind |-> "given", conv |-> NoConv, name |-> k, t |-> 0]
AutoId(n) == [kind |-> "auto", conv |-> NoConv, name |-> "", t |-> n]

\* getQueue without its isRedisAvailable() test
GetQueueUnchecked == "automation"

\* lib/queue/index.js getQueue: null while Redis is not available.
GetQueue == IF ~redisAvailable THEN Null ELSE "automation"

\* The jobId option addAutomationJob hands to queue.add: the spread of
\* `data.conversationId && {jobId: ...}' comes after `...options', so it
\* overrides a caller's options.jobId.
JobIdFor(jobName, conv, optJobId, t, auto) ==
    IF conv # NoConv THEN DerivedId(conv, jobName, t)
    ELSE IF optJobId # NoJobId THEN GivenId(optJobId)
    ELSE AutoId(auto)

\* BullMQ Queue.add: a job whose id already exists is not added again.
QueueAdd(q, id, jobName, conv, delay, t) ==
    IF id \in DOMAIN q THEN q
    ELSE [j \in DOMAIN q \cup {id} |->
            IF j = id
            THEN [name |-> jobName, conv |-> conv,
                  state |-> IF delay > 0 THEN "delayed" ELSE "waiting",
                  due |-> t + delay]
            ELSE q[j]]

\* addAutomationJob on broker state s = [jobs, nextAuto]; addFails is
\* queue.add rejecting (caught, logged, null returned).
AddAutomationJob(s, jobName, conv, optJobId, delay, addFails) ==
    IF GetQueue = Null
    THEN [jobs |-> s.jobs, nextAuto |-> s.nextAuto, result |-> Null]
    ELSE IF addFails
    THEN [jobs |-> s.jobs, nextAuto |-> s.nextAuto, result |-> Null]
    ELSE LET id == JobIdFor(jobName, conv, optJobId, now, s.nextAuto)
         IN [jobs |-> QueueAdd(s.jobs, id, jobName, conv, delay, now),
             nextAuto |-> IF id.kind = "auto" THEN s.nextAuto + 1 ELSE s.nextAuto,
             result |-> id]

IdleCancel ==
    [pc |-> "idle", conv |-> NoConv, snap |-> <<>>, idx |-> 0, count |-> 0,
     result |-> 0, threw |-> FALSE, allDelayed |-> TRUE, removed |-> {}]

QueueInit ==
    /\ redisAvailable = TRUE
    /\ now = 0
    /\ jobs = <<>>
    /\ nextAuto = 0
    /\ cancel = IdleCancel

Ops == {"o1", "o2"}
ScheduledAts == {0, 25, 72}       \* scheduledAt, in hours of the clock

IdleOp ==
    [kind |-> "none", pc |-> "idle", tx |-> "none", items |-> 0, sched |-> 0,
     avail |-> TRUE, results |-> <<>>, enq |-> 0]

OpInit ==
    /\ bookings = {}
    /\ op = [o \in Ops |-> IdleOp]
    /\ emitted = {}

Handlers == {"h1", "h2"}
Channels == {"EMAIL", "SMS"}
Words == {"Welcome", "confirmed"}       \* the words the idempotency checks look for
Addresses == {"email", "phone"}
NoContact == [exists |-> FALSE, email |-> FALSE, phone |-> FALSE]
Contacts == {[exists |-> TRUE, email |-> TRUE, phone |-> FALSE],
             [exists |-> TRUE, email |-> FALSE, phone |-> TRUE],
             [exists |-> TRUE, email |-> TRUE, phone |-> TRUE]}

IdleHandler == [pc |-> "idle", word |-> "", checked |-> FALSE, ch |-> "EMAIL"]

MsgInit ==
    /\ contact = NoContact
    /\ integrations = {}
    /\ integrationLog = [k \in Addresses \X Words |-> 0]
    /\ sent = [k \in Words \X Channels |-> 0]
    /\ handler = [h \in Handlers |-> IdleHandler]

Forms == {"f1", "f2"}
Deliveries == {"d1", "d2", "d3"}

IdleRun == [pc |-> "idle", form |-> "f1"]

FormInit ==
    /\ formStatus = [f \in Forms |-> "none"]
    /\ overdueRun = [d \in Deliveries |-> IdleRun]
    /\ overdueEmits = [f \in Forms |-> 0]
    /\ overdueWrites = [f \in Forms |-> 0]

Items == {"i1", "i2"}
LowHandlers == {"l1", "l2", "l3"}

IdleLow == [pc |-> "idle", item |-> "i1"]

AlertInit ==
    /\ alerts = [i \in Items |-> 0]
    /\ lowHandler = [l \in LowHandlers |-> IdleLow]

BusHandlers == {"a", "b", "c"}
Behaviours == {"returns", "throws", "awaits"}

MwBehaviours == {"callsNext", "stops", "callsNextLater", "callsNextTwice"}

\* `let index = 0' and what the chain has done so far
IdleChain == [index |-> 0, log |-> <<>>, continued |-> {}, deferred |-> {},
              emits |-> 0]

IdleDispatch == [pc |-> "idle", snap |-> <<>>, idx |-> 0, failed |-> {},
                 chain |-> IdleChain, rounds |-> 0]

BusInit ==
    /\ middlewares = <<>>
    /\ listeners = <<>>
    /\ dispatch = IdleDispatch
    /\ invoked = <<>>
    /\ running = {}
    /\ errors = 0

EnvInit == zone = "UTC"

BookingStatuses == {"CONFIRMED", "COMPLETED", "NO_SHOW"}
Absent == "absent"

\* a booking created CONFIRMED whose reminder job carries that snapshot
IdleReminder ==
    [pc |-> "idle", snapshot |-> "CONFIRMED", current |-> Absent,
     booking |-> Absent, todo |-> {}]

RemInit ==
    /\ bookingRow = "CONFIRMED"
    /\ reminder = IdleReminder
    /\ reminded = {}

MessageTypes == {"EMAIL", "SMS"}
NoProvider == "none"

IdleGw ==
    [pc |-> "idle", type |-> "EMAIL", attempt |-> 0, raw |-> "none",
     code |-> "none", result |-> "none", error |-> FALSE, delivered |-> FALSE,
     calls |-> 0]

GwInit ==
    /\ gwIntegration = [t \in MessageTypes |-> NoProvider]
    /\ gwClients = {}
    /\ gwLogs = <<>>
    /\ gw = IdleGw

IdleFormJob ==
    [pc |-> "idle", forms |-> <<>>, created |-> <<>>, events |-> <<>>,
     threw |-> FALSE, runs |-> 1, prior |-> <<>>, priorEvents |-> <<>>]

FjInit ==
    /\ linkedForms = {}
    /\ formJob = IdleFormJob

IdleOnOverdue ==
    [delivered |-> 0, read |-> 0, create |-> 0, send |-> 0, alerts |-> 0,
     reminders |-> 0]

NoChannel == "noChannel"          \* data.channel is undefined
NoError == "noError"

IdleReply ==
    [pc |-> "idle", error |-> NoError, channel |-> NoChannel, messages |-> 0, staffReplied |-> 0, atSend |-> {},
     handler |-> IdleCancel, direct |-> IdleCancel, deleted |-> <<>>,
     cancelledCount |-> 0]

NoEvent == "noEvent"
Undefined == "undefined"          \* a property the object does not have

IdleFormReminder == [pc |-> "idle", seen |-> "none", event |-> NoEvent]

\* eventBus.on('error', ...) of the module: the handler that only logs
IdleErrBus ==
    [pc |-> "idle", handlers |-> <<>>, errorHandlers |-> <<"returns">>,
     pending |-> 0, routed |-> 0]

NoEmit == [event |-> "none", payload |-> {}, warned |-> FALSE, subscribed |-> <<>>]

LateInit ==
    /\ onOverdue = [f \in Forms |-> IdleOnOverdue]
    /\ lastEmit = NoEmit
    /\ reply = IdleReply
    /\ formReminder = [f \in Forms |-> IdleFormReminder]
    /\ errBus = IdleErrBus

TailInit ==
    /\ EnvInit /\ RemInit /\ proc = [state |-> "listening", code |-> 0]
    /\ GwInit /\ FjInit /\ LateInit

HandlerInit == MsgInit /\ FormInit /\ AlertInit /\ BusInit /\ TailInit

Init == QueueInit /\ OpInit /\ HandlerInit

(***************************************************************************)
(* The broker connection and the clock.                                    *)
(***************************************************************************)
\* config/redis.js: redisClient.on('ready')
RedisReady ==
    /\ ~redisAvailable
    /\ redisAvailable' = TRUE
    /\ UNCHANGED <<now, jobs, nextAuto, cancel, opVars, handlerVars>>

\* config/redis.js: redisClient.on('error') / on('close')
RedisError ==
    /\ redisAvailable
    /\ redisAvailable' = FALSE
    /\ UNCHANGED <<now, jobs, nextAuto, cancel, opVars, handlerVars>>

Tick ==
    /\ now < MaxTime
    /\ now' = now + 1
    /\ UNCHANGED <<redisAvailable, jobs, nextAuto, cancel, opVars, handlerVars>>

\* the process is started in a time zone
SetTimeZone(z) ==
    /\ zone = "UTC"
    /\ z # "UTC"
    /\ now = 0
    /\ jobs = <<>>
    /\ zone' = z
    /\ UNCHANGED <<queueVars, opVars, msgVars, formVars, alertVars, busVars, remVars, proc,
                   gwVars, fjVars, lateVars>>

(***************************************************************************)
(* addAutomationJob called by any caller.                                  *)
(***************************************************************************)
AddJob(jobName, conv, optJobId, delay, addFails) ==
    /\ Cardinality(DOMAIN jobs) < MaxJobs
    /\ nextAuto < MaxJobs
    /\ LET r == AddAutomationJob([jobs |-> jobs, nextAuto |-> nextAuto],
                                 jobName, conv, optJobId, delay, addFails)
       IN /\ jobs' = r.jobs
          /\ nextAuto' = r.nextAuto
    /\ UNCHANGED <<redisAvailable, now, cancel, opVars, handlerVars>>

(***************************************************************************)
(* The broker and the worker pool (BullMQ Worker, concurrency 5).          *)
(***************************************************************************)
Concurrency == 5

SetState(j, st) == [jobs EXCEPT ![j].state = st]

\* the broker promotes a delayed job whose delay has elapsed
Promote(j) ==
    /\ redisAvailable
    /\ jobs[j].state = "delayed"
    /\ jobs[j].due <= now
    /\ jobs' = SetState(j, "waiting")
    /\ UNCHANGED <<redisAvailable, now, nextAuto, cancel, opVars, handlerVars>>

\* a worker slot takes a waiting job and locks it
Pick(j) ==
    /\ redisAvailable
    /\ jobs[j].state = "waiting"
    /\ Cardinality({k \in DOMAIN jobs : jobs[k].state = "active"}) < Concurrency
    /\ jobs' = SetState(j, "active")
    /\ UNCHANGED <<redisAvailable, now, nextAuto, cancel, opVars, handlerVars>>

\* the processor returns; removeOnComplete {count: 1000} keeps the job
Complete(j) ==
    /\ jobs[j].state = "active"
    /\ jobs' = SetState(j, "completed")
    /\ UNCHANGED <<redisAvailable, now, nextAuto, cancel, opVars, handlerVars>>

(***************************************************************************)
(* cancelScheduledJobsByConversation, run by the STAFF_REPLIED handler.    *)
(***************************************************************************)
Perms(S) ==
    {s \in [1..Cardinality(S) -> S] : \A a, b \in DOMAIN s : s[a] = s[b] => a = b}

\* a listing of every job of the queue, whatever its state
AnyStateJobs(q) == DOMAIN q

\* queue.getDelayed()
DelayedJobs(q) == {j \in DOMAIN q : q[j].state = "delayed"}

\* the snapshot's jobs whose data.conversationId === conversationId
Matching(snap, c) == {snap[i].id : i \in {k \in DOMAIN snap : snap[k].conv = c}}

\* emit(STAFF_REPLIED, {conversationId: c}): the handler runs up to
\* `await queue.getDelayed()' and the snapshot arrives.
CancelStart(c) ==
    /\ cancel.pc = "idle"
    /\ IF GetQueue = Null
       THEN cancel' = [IdleCancel EXCEPT !.pc = "done", !.conv = c]
       ELSE \E order \in Perms(DelayedJobs(jobs)) :
              cancel' = [IdleCancel EXCEPT
                           !.pc = "scan", !.conv = c, !.idx = 1,
                           !.snap = [i \in DOMAIN order |->
                                       [id |-> order[i], conv |-> jobs[order[i]].conv]]]
    /\ UNCHANGED <<redisAvailable, now, jobs, nextAuto, opVars, handlerVars>>

\* the loop without its conversation test
BelongsToAny(jobConv, c) == TRUE

\* the conversation test of the loop body
BelongsTo(jobConv, c) == jobConv = c

\* the count after one successful job.remove()
CountAfterRemove(n) == n + 1

\* one iteration of `for (const job of delayedJobs)': job.remove() throws when
\* the job is locked by a worker (caught: the function returns 0).
CancelStep ==
    /\ cancel.pc = "scan"
    /\ cancel.idx <= Len(cancel.snap)
    /\ LET e == cancel.snap[cancel.idx]
           j == e.id
       IN IF ~BelongsTo(e.conv, cancel.conv)
          THEN /\ cancel' = [cancel EXCEPT !.idx = @ + 1]
               /\ UNCHANGED jobs
          ELSE IF j \in DOMAIN jobs /\ jobs[j].state = "active"
          THEN /\ cancel' = [cancel EXCEPT !.pc = "done", !.result = 0,
                                           !.threw = TRUE, !.allDelayed = FALSE,
                                           !.idx = @ + 1]
               /\ UNCHANGED jobs
          ELSE /\ cancel' = [cancel EXCEPT
                               !.idx = @ + 1,
                               !.count = CountAfterRemove(@),
                               !.removed = @ \cup {j},
                               !.allDelayed =
                                   @ /\ j \in DOMAIN jobs /\ jobs[j].state = "delayed"]
               /\ jobs' = [k \in DOMAIN jobs \ {j} |-> jobs[k]]
    /\ UNCHANGED <<redisAvailable, now, nextAuto, opVars, handlerVars>>

\* `return cancelledCount'
CancelReturn ==
    /\ cancel.pc = "scan"
    /\ cancel.idx > Len(cancel.snap)
    /\ cancel' = [cancel EXCEPT !.pc = "done", !.result = cancel.count]
    /\ UNCHANGED <<redisAvailable, now, jobs, nextAuto, opVars, handlerVars>>

(***************************************************************************)
(* The schedule* functions of automationQueue.js.  Delays are in hours of  *)
(* the clock.                                                              *)
(***************************************************************************)
DefaultReminderHours == 24
FormReminderDelay == 24
FormOverdueDelay == 48

NotScheduled(s) == [jobs |-> s.jobs, nextAuto |-> s.nextAuto, result |-> Null]

ScheduleDelayedJob(s, jobName, conv, delayMs, addFails) ==
    AddAutomationJob(s, jobName, conv, NoJobId, delayMs, addFails)

ScheduleBookingConfirmation(s, conv, addFails) ==
    AddAutomationJob(s, "sendBookingConfirmation", conv, NoJobId, 0, addFails)

\* The clock counts hours of universal time.  In the zone "DST" local time
\* is universal time until DstAt and one hour ahead of it from then on.
Zones == {"UTC", "DST"}
DstAt == 10

OffsetAt(z, t) == IF z = "DST" /\ t >= DstAt THEN 1 ELSE 0

\* Date.prototype.getHours and the other local-time getters
ToLocal(z, t) == t + OffsetAt(z, t)

\* the instant of a local time; a local time that the change of offset
\* skips is read with the offset before the change
FromLocal(z, l) == IF OffsetAt(z, l - 1) = 1 THEN l - 1 ELSE l

\* `reminderTime.setHours(reminderTime.getHours() - reminderHoursBefore)'
HoursBefore(z, t, hours) == FromLocal(z, ToLocal(z, t) - hours)

ScheduleBookingReminder(s, conv, scheduledAt, reminderHoursBefore, addFails) ==
    LET reminderTime == HoursBefore(zone, scheduledAt, reminderHoursBefore)
        delayMs == reminderTime - now
    IN IF delayMs <= 0 THEN NotScheduled(s)
       ELSE ScheduleDelayedJob(s, "sendBookingReminder", conv, delayMs, addFails)

ReminderHours == {24, 48}

\* scheduleBookingReminder called by any caller
ScheduleReminder(conv, scheduledAt, reminderHoursBefore, addFails) ==
    /\ Cardinality(DOMAIN jobs) < MaxJobs
    /\ nextAuto < MaxJobs
    /\ LET r == ScheduleBookingReminder([jobs |-> jobs, nextAuto |-> nextAuto],
                                        conv, scheduledAt, reminderHoursBefore,
                                        addFails)
       IN jobs' = r.jobs /\ nextAuto' = r.nextAuto
    /\ UNCHANGED <<redisAvailable, now, cancel, opVars, handlerVars>>

\* its data carries workspaceId, bookingId and formId only
ScheduleFormSubmissionCreation(s, addFails) ==
    AddAutomationJob(s, "createFormSubmission", NoConv, NoJobId, 0, addFails)

ScheduleFormReminder(s, addFails) ==
    ScheduleDelayedJob(s, "sendFormReminder", NoConv, FormReminderDelay, addFails)

ScheduleFormOverdueCheck(s, addFails) ==
    ScheduleDelayedJob(s, "checkFormOverdue", NoConv, FormOverdueDelay, addFails)

(***************************************************************************)
(* The domain operations.  booking.service create writes one row with one  *)
(* statement; createPublicBooking, createContact and sendStaffReply run    *)
(* their writes in prisma.$transaction and go on after it has committed.   *)
(***************************************************************************)
TxKinds == {"publicBooking", "createContact", "staffReply"}

Emit(o, event) == emitted \cup {[op |-> o, event |-> event, tx |-> op[o].tx]}

\* the conversationId of automationData
AutomationConv(kind) == IF kind = "publicBooking" THEN "c1" ELSE NoConv

\* booking.service create: `await prisma.booking.create(...)'
BookingCreate(o, sched) ==
    /\ op[o].pc = "idle"
    /\ bookings' = bookings \cup {o}
    /\ op' = [op EXCEPT ![o] =
                [IdleOp EXCEPT !.kind = "staffBooking", !.pc = "committed",
                               !.tx = "committed", !.sched = sched]]
    /\ UNCHANGED <<queueVars, emitted, handlerVars>>

\* `prisma.$transaction(async (tx) => {' up to the first write
TxBegin(o, kind, sched, items) ==
    /\ op[o].pc = "idle"
    /\ op' = [op EXCEPT ![o] =
                [IdleOp EXCEPT !.kind = kind, !.pc = "tx", !.tx = "open",
                               !.sched = sched, !.items = items]]
    /\ UNCHANGED <<queueVars, bookings, emitted, handlerVars>>

\* a throw inside the transaction callback: `Workspace is not active',
\* `Inventory item ... not found', `Insufficient inventory ...',
\* `Conversation not found', or a rejected tx.* call
TxRollback(o) ==
    /\ op[o].pc \in {"tx", "inventory"}
    /\ op' = [op EXCEPT ![o].pc = "failed", ![o].tx = "rolledBack"]
    /\ UNCHANGED <<queueVars, bookings, emitted, handlerVars>>

\* createPublicBooking: find or create the contact, and the conversation
PublicContact(o, isNew) ==
    /\ op[o].kind = "publicBooking"
    /\ op[o].pc = "tx"
    /\ emitted' = IF isNew THEN Emit(o, "ContactCreated") ELSE emitted
    /\ op' = [op EXCEPT ![o].pc = "inventory"]
    /\ UNCHANGED <<queueVars, bookings, handlerVars>>

\* createPublicBooking: one turn of the inventory deduction loop
PublicInventory(o, isLow) ==
    /\ op[o].kind = "publicBooking"
    /\ op[o].pc = "inventory"
    /\ op[o].items > 0
    /\ emitted' = IF isLow THEN Emit(o, "InventoryLow") ELSE emitted
    /\ op' = [op EXCEPT ![o].items = @ - 1]
    /\ UNCHANGED <<queueVars, bookings, handlerVars>>

\* the transaction callback returns and the transaction commits
TxCommit(o) ==
    /\ \/ op[o].kind = "publicBooking" /\ op[o].pc = "inventory" /\ op[o].items = 0
       \/ op[o].kind \in {"createContact", "staffReply"} /\ op[o].pc = "tx"
    /\ bookings' = IF op[o].kind = "publicBooking" THEN bookings \cup {o}
                   ELSE bookings
    /\ op' = [op EXCEPT ![o].pc = "committed", ![o].tx = "committed"]
    /\ UNCHANGED <<queueVars, emitted, handlerVars>>

\* emit(BOOKING_CREATED), `await Promise.all([...])' of the three schedule
\* calls, `return booking'
BookingAutomation(o, f) ==
    /\ op[o].kind \in {"staffBooking", "publicBooking"}
    /\ op[o].pc = "committed"
    /\ emitted' = Emit(o, "BookingCreated")
    /\ LET conv == AutomationConv(op[o].kind)
           s0 == [jobs |-> jobs, nextAuto |-> nextAuto]
           r1 == ScheduleBookingConfirmation(s0, conv, f[1])
           r2 == ScheduleBookingReminder(r1, conv, op[o].sched,
                                         DefaultReminderHours, f[2])
           r3 == ScheduleFormSubmissionCreation(r2, f[3])
       IN /\ jobs' = r3.jobs
          /\ nextAuto' = r3.nextAuto
          /\ op' = [op EXCEPT ![o] =
                [@ EXCEPT !.pc = "returned", !.avail = redisAvailable,
                          !.results = <<r1.result, r2.result, r3.result>>,
                          !.enq = Cardinality(DOMAIN r3.jobs)
                                  - Cardinality(DOMAIN jobs)]]
    /\ UNCHANGED <<redisAvailable, now, cancel, bookings, handlerVars>>

\* createContact: emit(CONTACT_CREATED) after the transaction, and return
ContactEmit(o) ==
    /\ op[o].kind = "createContact"
    /\ op[o].pc = "committed"
    /\ emitted' = Emit(o, "ContactCreated")
    /\ op' = [op EXCEPT ![o].pc = "returned"]
    /\ UNCHANGED <<queueVars, bookings, handlerVars>>

\* sendStaffReply: emit(STAFF_REPLIED) after the transaction; the
\* cancellation it then awaits is CancelStart, CancelStep, CancelReturn
ReplyEmit(o) ==
    /\ op[o].kind = "staffReply"
    /\ op[o].pc = "committed"
    /\ emitted' = Emit(o, "StaffReplied")
    /\ op' = [op EXCEPT ![o].pc = "returned"]
    /\ UNCHANGED <<queueVars, bookings, handlerVars>>

(***************************************************************************)
(* The message-sending event handlers of lib/events/index.js and the       *)
(* senders of the integrations module they call.  A handler invocation is  *)
(* cut at its awaits.                                                      *)
(***************************************************************************)
\* createContact: tx.contact.create, committed
ContactCommit(c) ==
    /\ ~contact.exists
    /\ contact' = c
    /\ UNCHANGED <<integrations, integrationLog, sent, handler, exceptMsg>>

\* connectIntegration: the channel gets an active integration
ConnectIntegration(ch) ==
    /\ ch \notin integrations
    /\ integrations' = integrations \cup {ch}
    /\ UNCHANGED <<contact, integrationLog, sent, handler, exceptMsg>>

StartHandler(h, word, checked) ==
    /\ handler[h].pc = "idle"
    /\ handler' = [handler EXCEPT ![h] =
                     [IdleHandler EXCEPT !.pc = "findUnique", !.word = word,
                                         !.checked = checked]]
    /\ UNCHANGED <<contact, integrations, integrationLog, sent, exceptMsg>>

\* on(Events.CONTACT_CREATED, ...) up to `await prisma.contact.findUnique'
OnContactCreated(h) == StartHandler(h, "Welcome", TRUE)

\* on(Events.BOOKING_CREATED, ...) up to `await prisma.booking.findUnique'
OnBookingCreated(h) == StartHandler(h, "confirmed", TRUE)

\* on(Events.SEND_CONFIRMATION, ...) up to `await prisma.booking.findUnique'
OnSendConfirmation(h) == StartHandler(h, "confirmed", FALSE)

\* the sendBookingConfirmation processor: emit(Events.SEND_CONFIRMATION).
\* The job was enqueued after emit(BOOKING_CREATED).
SendBookingConfirmationJob(h) ==
    /\ \E g \in Handlers : handler[g].pc # "idle" /\ handler[g].checked
    /\ OnSendConfirmation(h)

\* `to: contactRecord.email || contactRecord.phone'
CheckTo(c) == IF c.email THEN "email" ELSE "phone"

To(ch) == IF ch = "EMAIL" THEN "email" ELSE "phone"

\* sendWelcomeMessage / sendBookingConfirmation: `if (contact.email) ...'
\* and then `if (contact.phone) ...'
FirstChannel(c) ==
    IF c.email THEN [pc |-> "integration", ch |-> "EMAIL"]
    ELSE IF c.phone THEN [pc |-> "integration", ch |-> "SMS"]
    ELSE [pc |-> "done", ch |-> "EMAIL"]

NextChannel(c, ch) ==
    IF ch = "EMAIL" /\ c.phone THEN [pc |-> "integration", ch |-> "SMS"]
    ELSE [pc |-> "done", ch |-> ch]

Goto(h, to) == [handler EXCEPT ![h].pc = to.pc, ![h].ch = to.ch]

\* findUnique resolves: `if (!contactRecord) return' / `if (!booking) return'
FindUnique(h) ==
    /\ handler[h].pc = "findUnique"
    /\ handler' =
          IF ~contact.exists THEN [handler EXCEPT ![h].pc = "done"]
          ELSE IF handler[h].checked THEN [handler EXCEPT ![h].pc = "findFirst"]
          ELSE Goto(h, FirstChannel(contact))
    /\ UNCHANGED <<contact, integrations, integrationLog, sent, exceptMsg>>

\* prisma.integrationLog.findFirst({to, content: {contains: word}, createdAt})
RecentLog(log, c, word) == log[<<CheckTo(c), word>>] > 0

\* integrationLog.findFirst resolves: `if (recentLog) return'
FindFirst(h) ==
    /\ handler[h].pc = "findFirst"
    /\ handler' =
          IF RecentLog(integrationLog, contact, handler[h].word)
          THEN [handler EXCEPT ![h].pc = "done"]
          ELSE Goto(h, FirstChannel(contact))
    /\ UNCHANGED <<contact, integrations, integrationLog, sent, exceptMsg>>

\* sendMessage: `await getActiveIntegration(workspaceId, type)'
GetActiveIntegration(h) ==
    /\ handler[h].pc = "integration"
    /\ handler' =
          IF handler[h].ch \in integrations
          THEN [handler EXCEPT ![h].pc = "createLog"]
          ELSE Goto(h, NextChannel(contact, handler[h].ch))
    /\ UNCHANGED <<contact, integrations, integrationLog, sent, exceptMsg>>

\* sendEmail / sendSMS: `await prisma.integrationLog.create({... PENDING})'
CreateLog(h) ==
    /\ handler[h].pc = "createLog"
    /\ integrationLog' =
          [integrationLog EXCEPT ![<<To(handler[h].ch), handler[h].word>>] = @ + 1]
    /\ handler' = [handler EXCEPT ![h].pc = "provider"]
    /\ UNCHANGED <<contact, integrations, sent, exceptMsg>>

\* sendEmail / sendSMS: the provider accepts the message, the log row
\* becomes SENT
ProviderSend(h) ==
    /\ handler[h].pc = "provider"
    /\ sent' = [sent EXCEPT ![<<handler[h].word, handler[h].ch>>] = @ + 1]
    /\ handler' = Goto(h, NextChannel(contact, handler[h].ch))
    /\ UNCHANGED <<contact, integrations, integrationLog, exceptMsg>>

HandlerStep ==
    \E h \in Handlers :
        \/ FindUnique(h)
        \/ FindFirst(h)
        \/ GetActiveIntegration(h)
        \/ CreateLog(h)
        \/ ProviderSend(h)

(***************************************************************************)
(* The createFormSubmission and checkFormOverdue processors of             *)
(* automationWorker.js.  A delivery is one run of the processor for a job  *)
(* handed out by the broker.                                               *)
(***************************************************************************)
\* createFormSubmission: prisma.formSubmission.create({status: 'PENDING'})
FormCreate(f) ==
    /\ formStatus[f] = "none"
    /\ formStatus' = [formStatus EXCEPT ![f] = "PENDING"]
    /\ UNCHANGED <<overdueRun, overdueEmits, overdueWrites, exceptForm>>

\* the worker pool hands a checkFormOverdue job to the processor, which runs
\* up to `await prisma.formSubmission.findUnique'
OverdueDeliver(d, f) ==
    /\ overdueRun[d].pc = "idle"
    /\ Cardinality({e \in Deliveries :
                      overdueRun[e].pc \notin {"idle", "done"}}) < Concurrency
    /\ overdueRun' = [overdueRun EXCEPT ![d] = [pc |-> "findUnique", form |-> f]]
    /\ UNCHANGED <<formStatus, overdueEmits, overdueWrites, exceptForm>>

\* findUnique resolves: `if (!submission) return',
\* `if (submission.status === 'PENDING')'
OverdueRead(d) ==
    /\ overdueRun[d].pc = "findUnique"
    /\ overdueRun' = [overdueRun EXCEPT ![d].pc =
                        IF formStatus[overdueRun[d].form] = "PENDING"
                        THEN "update" ELSE "done"]
    /\ UNCHANGED <<formStatus, overdueEmits, overdueWrites, exceptForm>>

\* `await prisma.formSubmission.update({status: 'OVERDUE'})' and
\* emit(Events.FORM_OVERDUE)
OverdueUpdate(d) ==
    /\ overdueRun[d].pc = "update"
    /\ LET f == overdueRun[d].form
       IN /\ formStatus' = [formStatus EXCEPT ![f] = "OVERDUE"]
          /\ overdueWrites' = [overdueWrites EXCEPT ![f] = @ + 1]
          /\ overdueEmits' = [overdueEmits EXCEPT ![f] = @ + 1]
    /\ overdueRun' = [overdueRun EXCEPT ![d].pc = "done"]
    /\ UNCHANGED exceptForm

(***************************************************************************)
(* The INVENTORY_LOW handler of lib/events/index.js.                       *)
(***************************************************************************)
\* on(Events.INVENTORY_LOW, ...) up to `await prisma.alert.findFirst'
OnInventoryLow(l, i) ==
    /\ lowHandler[l].pc = "idle"
    /\ lowHandler' = [lowHandler EXCEPT ![l] = [pc |-> "findFirst", item |-> i]]
    /\ UNCHANGED <<alerts, exceptAlert>>

\* alert.findFirst resolves: `if (existingAlert) return'
AlertFindFirst(l) ==
    /\ lowHandler[l].pc = "findFirst"
    /\ lowHandler' = [lowHandler EXCEPT ![l].pc =
                        IF alerts[lowHandler[l].item] > 0 THEN "done" ELSE "create"]
    /\ UNCHANGED <<alerts, exceptAlert>>

\* `await prisma.alert.create({type: 'INVENTORY_LOW', status: 'ACTIVE'})'
AlertCreate(l) ==
    /\ lowHandler[l].pc = "create"
    /\ alerts' = [alerts EXCEPT ![lowHandler[l].item] = @ + 1]
    /\ lowHandler' = [lowHandler EXCEPT ![l].pc = "notify"]
    /\ UNCHANGED exceptAlert

\* the owner lookup and the notification e-mail
AlertNotify(l) ==
    /\ lowHandler[l].pc = "notify"
    /\ lowHandler' = [lowHandler EXCEPT ![l].pc = "done"]
    /\ UNCHANGED <<alerts, exceptAlert>>

(***************************************************************************)
(* The event bus (lib/events/eventBus.js).  A handler invoked by emit      *)
(* either returns or throws before its first await, or is left awaiting    *)
(* and settles after emit has returned.                                    *)
(***************************************************************************)
Range(q) == {q[i] : i \in DOMAIN q}

\* EventBus.on: this.emitter.on(eventName, wrappedHandler)
Subscribe(h) ==
    /\ dispatch.pc = "idle"
    /\ h \notin Range(listeners)
    /\ listeners' = Append(listeners, h)
    /\ UNCHANGED <<dispatch, invoked, running, errors, middlewares, exceptBus>>

\* EventBus.use: this.middlewares.push(middleware)
Use(b) ==
    /\ dispatch.pc = "idle"
    /\ Len(middlewares) < MaxMiddlewares
    /\ middlewares' = Append(middlewares, b)
    /\ UNCHANGED <<listeners, dispatch, invoked, running, errors, exceptBus>>

\* a chain that goes on to the handlers whatever the middlewares did
ChainPassedAlways(mws, index) == TRUE

\* emit, next: `if (index < this.middlewares.length) ... else' negated
ChainPassed(mws, index) == ~(index < Len(mws))

\* emit: `const next = () => { ... }', called with the chain in state c.
\* A middleware is called with next and calls it before it returns, once or
\* twice, keeps it to call it later, or does not call it.
RECURSIVE RunNext(_, _)
RunNext(mws, c) ==
    IF ChainPassed(mws, c.index)
    THEN [c EXCEPT !.emits = @ + 1]
    ELSE LET i == c.index + 1
             c1 == [c EXCEPT !.index = i, !.log = Append(@, i)]
             c2 == [c1 EXCEPT !.continued = @ \cup {i}]
         IN CASE mws[i] = "callsNext" -> RunNext(mws, c2)
              [] mws[i] = "callsNextTwice" -> RunNext(mws, RunNext(mws, c2))
              [] mws[i] = "callsNextLater" -> [c1 EXCEPT !.deferred = @ \cup {i}]
              [] OTHER -> c1

\* the emitter.emit calls made by the chain are made one after the other;
\* each copies the listener array
AfterChain(d, c) ==
    IF c.emits > d.chain.emits
    THEN [d EXCEPT !.pc = "dispatching", !.snap = listeners, !.idx = 1,
                   !.chain = c, !.rounds = c.emits - d.chain.emits]
    ELSE [d EXCEPT !.pc = "returned", !.chain = c]

\* EventBus.emit: next() runs the middlewares and then
\* this.emitter.emit(eventName, payload)
EmitStart ==
    /\ dispatch.pc = "idle"
    /\ dispatch' = AfterChain(IdleDispatch, RunNext(middlewares, IdleChain))
    /\ UNCHANGED <<listeners, invoked, running, errors, middlewares, exceptBus>>

\* a middleware calls the continuation it kept, after emit has returned
MiddlewareResume(i) ==
    /\ dispatch.pc = "returned"
    /\ i \in dispatch.chain.deferred
    /\ dispatch' = AfterChain(dispatch,
                       RunNext(middlewares,
                               [dispatch.chain EXCEPT !.deferred = @ \ {i},
                                                      !.continued = @ \cup {i}]))
    /\ UNCHANGED <<listeners, invoked, running, errors, middlewares, exceptBus>>

\* a further this.emitter.emit(eventName, payload) of the same emit
NextRound ==
    /\ dispatch.pc = "dispatching"
    /\ dispatch.idx > Len(dispatch.snap)
    /\ dispatch.rounds > 1
    /\ dispatch' = [dispatch EXCEPT !.rounds = @ - 1, !.snap = listeners, !.idx = 1]
    /\ UNCHANGED <<listeners, invoked, running, errors, middlewares, exceptBus>>

\* a listener that calls the handler with no try/catch around it
UnwrappedHandler(behaviour) ==
    [propagates |-> behaviour = "throws", caught |-> FALSE]

\* EventBus.on: wrappedHandler = async (payload) => { try { await
\* handler(payload) } catch (err) { ...; this.emitter.emit('error', err) } }
WrappedHandler(behaviour) ==
    [propagates |-> FALSE, caught |-> behaviour = "throws"]

\* the listeners called last to first
ListenerFromEnd(snap, idx) == snap[Len(snap) + 1 - idx]

\* EventEmitter.emit calls the listeners in the order they were added
ListenerAt(snap, idx) == snap[idx]

\* emitter.emit calls the next listener, which runs up to its first await
Invoke(behaviour) ==
    /\ dispatch.pc = "dispatching"
    /\ dispatch.idx <= Len(dispatch.snap)
    /\ LET h == ListenerAt(dispatch.snap, dispatch.idx)
           r == WrappedHandler(behaviour)
       IN /\ invoked' = Append(invoked, h)
          /\ running' = IF behaviour = "awaits" THEN running \cup {h} ELSE running
          /\ errors' = IF r.caught THEN errors + 1 ELSE errors
          /\ dispatch' =
                IF r.propagates
                THEN [dispatch EXCEPT !.pc = "threw", !.failed = @ \cup {h}]
                ELSE [dispatch EXCEPT !.idx = @ + 1,
                                      !.failed = IF behaviour = "throws"
                                                 THEN @ \cup {h} ELSE @]
    /\ UNCHANGED <<listeners, middlewares, exceptBus>>

\* emitter.emit and EventBus.emit return to the caller
EmitReturn ==
    /\ dispatch.pc = "dispatching"
    /\ dispatch.idx > Len(dispatch.snap)
    /\ dispatch.rounds <= 1
    /\ dispatch' = [dispatch EXCEPT !.pc = "returned", !.rounds = 0]
    /\ UNCHANGED <<listeners, invoked, running, errors, middlewares, exceptBus>>

\* the promise a handler awaits settles; a rejection is caught by
\* wrappedHandler and dispatched on `error'
Settle(h, rejects) ==
    /\ dispatch.pc # "dispatching"
    /\ h \in running
    /\ running' = running \ {h}
    /\ errors' = IF rejects THEN errors + 1 ELSE errors
    /\ dispatch' = IF rejects THEN [dispatch EXCEPT !.failed = @ \cup {h}]
                   ELSE dispatch
    /\ UNCHANGED <<listeners, invoked, middlewares, exceptBus>>

Broker ==
    \/ \E j \in DOMAIN jobs : Promote(j)
    \/ \E j \in DOMAIN jobs : Pick(j)
    \/ \E j \in DOMAIN jobs : Complete(j)

QueueNext ==
    \/ RedisReady
    \/ RedisError
    \/ Tick
    \/ \E n \in JobNames, c \in Convs \cup {NoConv}, k \in OptJobIds,
          d \in Delays, f \in BOOLEAN : AddJob(n, c, k, d, f)
    \/ Broker

SpecQueue == Init /\ [][QueueNext]_vars

\* One StaffReplied emission is followed from its start to its return, for one
\* conversation (the conversations are interchangeable) and one job type.
CancelledConvs == {"c1"}

CancelNext ==
    \/ Tick
    \/ \E c \in Convs \cup {NoConv}, d \in Delays :
          AddJob("sendBookingReminder", c, NoJobId, d, FALSE)
    \/ Broker
    \/ \E c \in CancelledConvs : CancelStart(c)
    \/ CancelStep
    \/ CancelReturn

SpecCancel == Init /\ [][CancelNext]_vars

DegradeNext ==
    \/ RedisReady
    \/ RedisError
    \/ Tick
    \/ \E o \in Ops, t \in ScheduledAts : BookingCreate(o, t)
    \/ \E o \in Ops, t \in ScheduledAts : TxBegin(o, "publicBooking", t, 0)
    \/ \E o \in Ops : PublicContact(o, FALSE)
    \/ \E o \in Ops : TxCommit(o)
    \/ \E o \in Ops, f \in [1..3 -> BOOLEAN] : BookingAutomation(o, f)

SpecDegrade == Init /\ [][DegradeNext]_vars

(***************************************************************************)
(* Claims about the job queue.                                             *)
(***************************************************************************)
C1_Matched == Matching(cancel.snap, cancel.conv)

C1_CountAndRemoved ==
    (cancel.pc = "done" /\ cancel.allDelayed)
        => /\ ~cancel.threw
           /\ cancel.result = Cardinality(C1_Matched)
           /\ cancel.removed = C1_Matched

C1_OthersUntouched ==
    \A j \in DOMAIN jobs :
        (cancel'.idx # cancel.idx /\ jobs[j].conv # cancel'.conv)
            => (j \in DOMAIN jobs' /\ jobs'[j] = jobs[j])

Unprocessed(j) == jobs[j].state \in {"delayed", "waiting"}

\* C2: two enqueues of the same job type for the same conversation, the first
\* not yet processed, leave one job in the queue.
C2_OneJobPerIdentity ==
    \A j1, j2 \in DOMAIN jobs :
        ( /\ jobs[j1].conv # NoConv
          /\ jobs[j1].conv = jobs[j2].conv
          /\ jobs[j1].name = jobs[j2].name
          /\ Unprocessed(j1) /\ Unprocessed(j2) ) => j1 = j2

WelcomeNext ==
    \/ \E c \in Contacts : ContactCommit(c)
    \/ \E ch \in Channels : ConnectIntegration(ch)
    \/ \E h \in Handlers : OnContactCreated(h)
    \/ HandlerStep

SpecWelcome == Init /\ [][WelcomeNext]_vars

ConfirmNext ==
    \/ \E c \in Contacts : ContactCommit(c)
    \/ \E ch \in Channels : ConnectIntegration(ch)
    \/ OnBookingCreated("h1")
    \/ SendBookingConfirmationJob("h2")
    \/ HandlerStep

SpecConfirm == Init /\ [][ConfirmNext]_vars

\* Two bookings of the one contact are created within the five minutes of
\* the idempotency check; handler h is the BOOKING_CREATED handler of
\* booking h, and nothing else sends that booking's confirmation.
TwoBookingsNext ==
    \/ \E c \in Contacts : ContactCommit(c)
    \/ \E ch \in Channels : ConnectIntegration(ch)
    \/ \E h \in Handlers : OnBookingCreated(h)
    \/ HandlerStep

SpecTwoBookings == Init /\ [][TwoBookingsNext]_vars

OverdueNext ==
    \/ \E f \in Forms : FormCreate(f)
    \/ \E d \in Deliveries, f \in Forms : OverdueDeliver(d, f)
    \/ \E d \in Deliveries : OverdueRead(d)
    \/ \E d \in Deliveries : OverdueUpdate(d)

SpecOverdue == Init /\ [][OverdueNext]_vars

AlertNext ==
    \/ \E l \in LowHandlers, i \in Items : OnInventoryLow(l, i)
    \/ \E l \in LowHandlers : AlertFindFirst(l)
    \/ \E l \in LowHandlers : AlertCreate(l)
    \/ \E l \in LowHandlers : AlertNotify(l)

SpecAlert == Init /\ [][AlertNext]_vars

CommitNext ==
    \/ \E o \in Ops : BookingCreate(o, 72)
    \/ \E o \in Ops, k \in TxKinds :
          \E n \in (IF k = "publicBooking" THEN 0..MaxItems ELSE {0}) :
              TxBegin(o, k, 72, n)
    \/ \E o \in Ops : TxRollback(o)
    \/ \E o \in Ops, isNew \in BOOLEAN : PublicContact(o, isNew)
    \/ \E o \in Ops, isLow \in BOOLEAN : PublicInventory(o, isLow)
    \/ \E o \in Ops : TxCommit(o)
    \/ \E o \in Ops : BookingAutomation(o, [i \in 1..3 |-> FALSE])
    \/ \E o \in Ops : ContactEmit(o)
    \/ \E o \in Ops : ReplyEmit(o)

SpecCommit == Init /\ [][CommitNext]_vars

BusNext ==
    \/ \E h \in BusHandlers : Subscribe(h)
    \/ EmitStart
    \/ \E b \in Behaviours : Invoke(b)
    \/ EmitReturn
    \/ \E h \in BusHandlers, r \in BOOLEAN : Settle(h, r)

SpecBus == Init /\ [][BusNext]_vars

(***************************************************************************)
(* The reminder path: the sendBookingReminder processor and the            *)
(* SEND_REMINDER handler, cut at their awaits.                             *)
(***************************************************************************)
exceptRem ==
    <<queueVars, opVars, msgVars, formVars, alertVars, busVars, envVars, proc, gwVars,
      fjVars, lateVars>>

\* booking.service update with a status in its body
BookingUpdate(st) ==
    /\ bookingRow # Absent
    /\ bookingRow' = st
    /\ UNCHANGED <<reminder, reminded, exceptRem>>

\* booking.service remove
BookingRemove ==
    /\ bookingRow # Absent
    /\ bookingRow' = Absent
    /\ UNCHANGED <<reminder, reminded, exceptRem>>

\* a worker starts the processor, which awaits prisma.booking.findUnique
ReminderJobStart ==
    /\ reminder.pc = "idle"
    /\ reminder' = [reminder EXCEPT !.pc = "processor"]
    /\ UNCHANGED <<bookingRow, reminded, exceptRem>>

\* the processor's row arrives; unless the booking is missing or CANCELLED it
\* emits SEND_REMINDER and the handler runs up to its own findUnique
ReminderJobRead ==
    /\ reminder.pc = "processor"
    /\ reminder' = [reminder EXCEPT
                      !.current = bookingRow,
                      !.pc = IF bookingRow = Absent \/ bookingRow = "CANCELLED"
                             THEN "done" ELSE "handler"]
    /\ UNCHANGED <<bookingRow, reminded, exceptRem>>

\* a handler that decides on the booking carried by the job
SnapshotStatus(snapshot, booking) == snapshot

\* the status the handler decides on: that of the row it has just read
DecisionStatus(snapshot, booking) == booking

\* the handler's row arrives: `if (!booking) return', `if (booking.status !==
\* 'CONFIRMED') return', else sendBookingReminder(workspaceId, booking,
\* booking.contact) starts with the channels the contact has
OnSendReminder ==
    /\ reminder.pc = "handler"
    /\ LET send == /\ bookingRow # Absent
                   /\ DecisionStatus(reminder.snapshot, bookingRow) = "CONFIRMED"
           chans == {ch \in {"EMAIL"} : contact.email}
                        \cup {ch \in {"SMS"} : contact.phone}
       IN reminder' = [reminder EXCEPT
                         !.booking = bookingRow,
                         !.todo = IF send THEN chans ELSE {},
                         !.pc = IF send /\ chans # {} THEN "send" ELSE "done"]
    /\ UNCHANGED <<bookingRow, reminded, exceptRem>>

\* `await sendMessage(...)' for the email address, then for the phone number
SendBookingReminderStep ==
    /\ reminder.pc = "send"
    /\ LET ch == IF "EMAIL" \in reminder.todo THEN "EMAIL" ELSE "SMS"
       IN /\ reminded' = reminded \cup {ch}
          /\ reminder' = [reminder EXCEPT
                            !.todo = @ \ {ch},
                            !.pc = IF reminder.todo = {ch} THEN "done" ELSE "send"]
    /\ UNCHANGED <<bookingRow, exceptRem>>

ReminderPathNext ==
    \/ \E c \in Contacts : ContactCommit(c)
    \/ \E st \in BookingStatuses : BookingUpdate(st)
    \/ BookingRemove
    \/ ReminderJobStart
    \/ ReminderJobRead
    \/ OnSendReminder
    \/ SendBookingReminderStep

SpecReminderPath == Init /\ [][ReminderPathNext]_vars

(***************************************************************************)
(* The life of the server process: startServer and shutdown, cut at their  *)
(* awaits.  The initial state is a process that started with the broker    *)
(* ready; the broker's jobs outlive the process.                           *)
(***************************************************************************)
exceptLife ==
    <<now, jobs, nextAuto, cancel, opVars, msgVars, formVars, alertVars, busVars,
      envVars, remVars, gwVars, fjVars, lateVars>>

\* the process is launched again: redisAvailable starts false, startServer
\* calls getRedis() and awaits the first of `ready' and `error'
Launch ==
    /\ proc.state = "exited"
    /\ proc' = [state |-> "starting", code |-> 0]
    /\ redisAvailable' = FALSE
    /\ UNCHANGED exceptLife

\* `ready' comes first: workers and handlers are registered, app.listen
StartServerReady ==
    /\ proc.state = "starting"
    /\ proc' = [state |-> "listening", code |-> 0]
    /\ redisAvailable' = TRUE
    /\ UNCHANGED exceptLife

\* `error' comes first: the promise rejects, `catch (err)' calls
\* process.exit(1)
StartServerError ==
    /\ proc.state = "starting"
    /\ proc' = [state |-> "exited", code |-> 1]
    /\ redisAvailable' = FALSE
    /\ UNCHANGED exceptLife

\* SIGTERM or SIGINT: shutdown calls server.close(callback)
Shutdown ==
    /\ proc.state = "listening"
    /\ proc' = [proc EXCEPT !.state = "closing"]
    /\ UNCHANGED <<redisAvailable, exceptLife>>

\* the callback's `await closeQueues()': each worker is closed once its
\* running jobs have returned, then both maps are cleared
CloseQueues ==
    /\ proc.state = "closing"
    /\ \A j \in DOMAIN jobs : jobs[j].state # "active"
    /\ proc' = [proc EXCEPT !.state = "queuesClosed"]
    /\ UNCHANGED <<redisAvailable, exceptLife>>

\* `await closeRedis()'
CloseRedis ==
    /\ proc.state = "queuesClosed"
    /\ proc' = [proc EXCEPT !.state = "redisClosed"]
    /\ redisAvailable' = FALSE
    /\ UNCHANGED exceptLife

\* `await prisma.$disconnect()' and process.exit(0)
ShutdownExit ==
    /\ proc.state = "redisClosed"
    /\ proc' = [state |-> "exited", code |-> 0]
    /\ UNCHANGED <<redisAvailable, exceptLife>>

\* the process runs code: requests in flight, event handlers still awaiting
Alive == proc.state \in {"listening", "closing", "queuesClosed", "redisClosed"}

\* the process has workers registered
HasWorkers == proc.state \in {"listening", "closing"}

LifeNext ==
    \/ Launch
    \/ StartServerReady
    \/ StartServerError
    \/ Shutdown
    \/ CloseQueues
    \/ CloseRedis
    \/ ShutdownExit
    \/ Tick
    \/ Alive /\ \E n \in JobNames, c \in Convs \cup {NoConv}, d \in Delays :
                  AddJob(n, c, NoJobId, d, FALSE)
    \/ \E j \in DOMAIN jobs : Promote(j)
    \/ HasWorkers /\ \E j \in DOMAIN jobs : Pick(j)
    \/ Alive /\ \E j \in DOMAIN jobs : Complete(j)

SpecLife == Init /\ [][LifeNext]_vars

(***************************************************************************)
(* The notification gateway: sendMessage, sendEmailWithRetry / sendEmail   *)
(* and sendSMSWithRetry / sendSMS, cut at their awaits.  Provider error    *)
(* codes are numbers in the code and numerals here; the codes the adapters *)
(* put on the errors they throw are strings.                               *)
(***************************************************************************)
exceptGw ==
    <<queueVars, opVars, msgVars, formVars, alertVars, busVars, envVars, remVars,
      proc, fjVars, lateVars>>

MaxRetries == 3

\* what the provider can answer to one send
ProviderAnswers(type) ==
    IF type = "EMAIL" THEN {"ok", "401", "500"} ELSE {"ok", "20003", "21603", "500"}

AuthCodes == {"401", "20003", "21603"}

\* onboarding connectIntegration: upsert of the (workspace, type) integration
ConnectProvider(type, provider) ==
    /\ gw.pc \in {"idle", "done"}
    /\ gwIntegration[type] # provider
    /\ gwIntegration' = [gwIntegration EXCEPT ![type] = provider]
    /\ UNCHANGED <<gwClients, gwLogs, gw, exceptGw>>

\* sendMessage(params) up to `await getActiveIntegration(workspaceId, type)'
SendMessageStart(type) ==
    /\ gw.pc \in {"idle", "done"}
    /\ gw.calls < MaxSends
    /\ gw' = [IdleGw EXCEPT !.pc = "integration", !.type = type,
                            !.calls = gw.calls + 1]
    /\ UNCHANGED <<gwIntegration, gwClients, gwLogs, exceptGw>>

Supported(type, provider) ==
    \/ type = "EMAIL" /\ provider = "sendgrid"
    \/ type = "SMS" /\ provider = "twilio"

GwReturn(g, ok) ==
    [g EXCEPT !.pc = "done", !.result = IF ok THEN "ok" ELSE "fail",
              !.error = ~ok]

\* the integration row arrives: no row returns the failure result;
\* getIntegrationClient answers from its cache or builds a client for a
\* supported type and provider; no client throws into the catch block; then
\* the branch on type and provider starts the first attempt or the mock
SendMessageResolve ==
    /\ gw.pc = "integration"
    /\ LET provider == gwIntegration[gw.type]
           cached == gw.type \in gwClients
           supported == Supported(gw.type, provider)
       IN IF provider = NoProvider
          THEN gw' = GwReturn(gw, FALSE) /\ UNCHANGED gwClients
          ELSE /\ gwClients' = IF supported THEN gwClients \cup {gw.type}
                               ELSE gwClients
               /\ gw' = IF ~cached /\ ~supported THEN GwReturn(gw, FALSE)
                        ELSE IF supported
                        THEN [gw EXCEPT !.pc = "create", !.attempt = 1]
                        ELSE [gw EXCEPT !.pc = "mock"]
    /\ UNCHANGED <<gwIntegration, gwLogs, exceptGw>>

\* sendEmail / sendSMS: prisma.integrationLog.create({status: 'PENDING'})
PendingEntry == [status |-> "PENDING", retryCount |-> 0, error |-> FALSE]

LogCreate ==
    /\ gw.pc = "create"
    /\ gwLogs' = Append(gwLogs, PendingEntry)
    /\ gw' = [gw EXCEPT !.pc = "provider"]
    /\ UNCHANGED <<gwIntegration, gwClients, exceptGw>>

\* the code the adapter puts on the error it throws
EnhancedCode(type, raw) ==
    IF type = "EMAIL"
    THEN IF raw = "401" THEN "SENDGRID_AUTH_FAILED" ELSE raw
    ELSE IF raw = "20003" THEN "TWILIO_AUTH_FAILED"
    ELSE IF raw = "21603" THEN "TWILIO_PHONE_NOT_VERIFIED"
    ELSE raw

\* `await sgMail.send(msg)' / `await client.messages.create(...)' settles
ProviderCall(answer) ==
    /\ gw.pc = "provider"
    /\ gw' = IF answer = "ok"
             THEN [gw EXCEPT !.pc = "markSent", !.delivered = TRUE]
             ELSE [gw EXCEPT !.pc = "markFailed", !.raw = answer,
                             !.code = EnhancedCode(gw.type, answer)]
    /\ UNCHANGED <<gwIntegration, gwClients, gwLogs, exceptGw>>

\* the log entry is updated to SENT and success travels up to sendMessage
MarkSent ==
    /\ gw.pc = "markSent"
    /\ gwLogs' = [gwLogs EXCEPT ![Len(gwLogs)].status = "SENT"]
    /\ gw' = GwReturn(gw, TRUE)
    /\ UNCHANGED <<gwIntegration, gwClients, exceptGw>>

\* an update to FAILED that leaves retryCount alone
FailedEntryUncounted(e) == [e EXCEPT !.status = "FAILED", !.error = TRUE]

\* `data: {status: 'FAILED', error: errorMessage, retryCount: {increment: 1}}'
FailedEntry(e) ==
    [e EXCEPT !.status = "FAILED", !.error = TRUE, !.retryCount = @ + 1]

\* the test of the retry loops: `error.code === 401' for email,
\* `error.code === 20003 || error.code === 21603' for SMS
NoRetry(type, code) ==
    IF type = "EMAIL" THEN code = "401" ELSE code \in {"20003", "21603"}

\* the log entry is updated to FAILED and the enhanced error is thrown into
\* the retry loop, which breaks, waits for its backoff, or runs out
MarkFailed ==
    /\ gw.pc = "markFailed"
    /\ gwLogs' = [gwLogs EXCEPT ![Len(gwLogs)] = FailedEntry(@)]
    /\ gw' = IF NoRetry(gw.type, gw.code) THEN GwReturn(gw, FALSE)
             ELSE IF gw.attempt < MaxRetries THEN [gw EXCEPT !.pc = "backoff"]
             ELSE GwReturn(gw, FALSE)
    /\ UNCHANGED <<gwIntegration, gwClients, exceptGw>>

\* the backoff timer fires and the loop makes its next attempt
Backoff ==
    /\ gw.pc = "backoff"
    /\ gw' = [gw EXCEPT !.pc = "create", !.attempt = @ + 1]
    /\ UNCHANGED <<gwIntegration, gwClients, gwLogs, exceptGw>>

\* mockTwilioAdapter.sendSMS: a log entry created as SENT, success returned
MockSend ==
    /\ gw.pc = "mock"
    /\ gwLogs' = Append(gwLogs, [PendingEntry EXCEPT !.status = "SENT"])
    /\ gw' = GwReturn(gw, TRUE)
    /\ UNCHANGED <<gwIntegration, gwClients, exceptGw>>

GatewayNext ==
    \/ \E t \in MessageTypes, pr \in {"sendgrid", "twilio", "mailgun"} :
          ConnectProvider(t, pr)
    \/ \E t \in MessageTypes : SendMessageStart(t)
    \/ SendMessageResolve
    \/ LogCreate
    \/ \E a \in ProviderAnswers(gw.type) : ProviderCall(a)
    \/ MarkSent
    \/ MarkFailed
    \/ Backoff
    \/ MockSend

SpecGateway == Init /\ [][GatewayNext]_vars

(***************************************************************************)
(* The createFormSubmission processor, cut at its awaits, for the booking  *)
(* of bookingRow.                                                          *)
(***************************************************************************)
exceptFj ==
    <<queueVars, opVars, msgVars, formVars, alertVars, busVars, envVars, remVars,
      proc, gwVars, lateVars>>

\* a Form row is created with the booking type's id
LinkForm(f) ==
    /\ f \notin linkedForms
    /\ linkedForms' = linkedForms \cup {f}
    /\ UNCHANGED <<formJob, exceptFj>>

\* a worker starts the processor, which awaits prisma.booking.findUnique
FormJobStart ==
    /\ formJob.pc = "idle"
    /\ formJob' = [formJob EXCEPT !.pc = "findUnique"]
    /\ UNCHANGED <<linkedForms, exceptFj>>

\* the booking arrives with its type's forms, in the order the store gives:
\* `if (!booking) return', `forms = booking.bookingType?.forms || []'
FormJobRead ==
    /\ formJob.pc = "findUnique"
    /\ IF bookingRow = Absent
       THEN formJob' = [formJob EXCEPT !.pc = "done"]
       ELSE \E order \in Perms(linkedForms) :
              formJob' = [formJob EXCEPT
                            !.forms = order,
                            !.pc = IF order = <<>> THEN "done" ELSE "create"]
    /\ UNCHANGED <<linkedForms, exceptFj>>

\* a loop body that emits nothing
EmitNothing(events, f) == events

\* emit(Events.FORM_PENDING, {formSubmissionId, formId: form.id, ...})
EmitFormPending(events, f) == Append(events, f)

\* one iteration of `for (const form of forms)': the create settles (it is
\* refused when the booking row is gone: the catch block rethrows), then the
\* event is emitted
FormJobCreate ==
    /\ formJob.pc = "create"
    /\ LET f == formJob.forms[Len(formJob.created) + 1]
       IN IF bookingRow = Absent
          THEN formJob' = [formJob EXCEPT !.pc = "done", !.threw = TRUE]
          ELSE formJob' =
                 [formJob EXCEPT
                    !.created = Append(@, f),
                    !.events = EmitFormPending(@, f),
                    !.pc = IF Len(formJob.created) + 1 = Len(formJob.forms)
                           THEN "done" ELSE "create"]
    /\ UNCHANGED <<linkedForms, exceptFj>>

FormJobNext ==
    \/ \E f \in Forms : LinkForm(f)
    \/ \E st \in BookingStatuses : BookingUpdate(st)
    \/ BookingRemove
    \/ FormJobStart
    \/ FormJobRead
    \/ FormJobCreate

SpecFormJob == Init /\ [][FormJobNext]_vars

\* the broker delivers the job again (a retry after a failure, or a duplicate
\* delivery): the processor starts afresh; what the earlier delivery created
\* and emitted stays
FormJobRedeliver ==
    /\ formJob.pc = "done"
    /\ formJob.runs < MaxDeliveries
    /\ formJob' = [IdleFormJob EXCEPT
                     !.pc = "findUnique",
                     !.runs = formJob.runs + 1,
                     !.prior = formJob.prior \o formJob.created,
                     !.priorEvents = formJob.priorEvents \o formJob.events]
    /\ UNCHANGED <<linkedForms, exceptFj>>

FormRetryNext ==
    \/ FormJobNext
    \/ FormJobRedeliver

SpecFormRetry == Init /\ [][FormRetryNext]_vars

(***************************************************************************)
(* The FORM_OVERDUE handler, cut at its awaits.  Several invocations for   *)
(* one form submission can be under way; each field counts the invocations *)
(* waiting at one await.                                                   *)
(***************************************************************************)
exceptLate ==
    <<queueVars, opVars, msgVars, formVars, alertVars, busVars, envVars, remVars,
      proc, gwVars, fjVars>>

exceptOnOverdue == <<exceptLate, lastEmit, reply, formReminder, errBus>>

\* emit(FORM_OVERDUE, {formSubmissionId: f}) reaches the handler, which runs
\* up to `await prisma.formSubmission.findUnique'
OnFormOverdue(f) ==
    /\ onOverdue[f].delivered < MaxOverdueEvents
    /\ onOverdue' = [onOverdue EXCEPT ![f].delivered = @ + 1, ![f].read = @ + 1]
    /\ UNCHANGED exceptOnOverdue

\* the submission arrives: `if (!submission) return', else alert.create
OverdueHandlerRead(f) ==
    /\ onOverdue[f].read > 0
    /\ onOverdue' = [onOverdue EXCEPT
                        ![f].read = @ - 1,
                        ![f].create = IF formStatus[f] = "none" THEN @ ELSE @ + 1]
    /\ UNCHANGED exceptOnOverdue

\* the ACTIVE FORM_OVERDUE alert is created; sendFormReminder is called
OverdueAlertCreate(f) ==
    /\ onOverdue[f].create > 0
    /\ onOverdue' = [onOverdue EXCEPT
                        ![f].create = @ - 1, ![f].alerts = @ + 1,
                        ![f].send = @ + 1]
    /\ UNCHANGED exceptOnOverdue

\* sendFormReminder has sent to the contact's addresses
OverdueReminderSent(f) ==
    /\ onOverdue[f].send > 0
    /\ onOverdue' = [onOverdue EXCEPT ![f].send = @ - 1, ![f].reminders = @ + 1]
    /\ UNCHANGED exceptOnOverdue

OnOverdueNext ==
    \/ \E f \in Forms : FormCreate(f)
    \/ \E f \in Forms : OnFormOverdue(f)
    \/ \E f \in Forms : OverdueHandlerRead(f)
    \/ \E f \in Forms : OverdueAlertCreate(f)
    \/ \E f \in Forms : OverdueReminderSent(f)

SpecOnOverdue == Init /\ [][OnOverdueNext]_vars

(***************************************************************************)
(* EventBus.emit with its payload validation (registry.js).  A payload is  *)
(* the set of the field names it has.                                      *)
(***************************************************************************)
EventNames == {"booking.deleted", "form.overdue"}
PayloadFields == {"workspaceId", "bookingId"}

\* EventMetadata: `booking.deleted' is registered, `form.overdue' is not
HasMetadata(eventName) == eventName = "booking.deleted"
RequiredFields(eventName) == {"workspaceId", "bookingId"}

ValidateEventPayload(eventName, payload) ==
    IF ~HasMetadata(eventName) THEN TRUE
    ELSE \A field \in RequiredFields(eventName) : field \in payload

\* an emit that drops an invalid payload
DispatchesIfValid(isValid) == isValid

\* after the validation block emit goes on to the middlewares and the
\* emitter whatever isValid was
Dispatches(isValid) == TRUE

\* EventBus.emit(eventName, payload): validation, warning, then next()
EmitPayload(eventName, payload) ==
    /\ dispatch.pc = "idle"
    /\ LET isValid == ValidateEventPayload(eventName, payload)
       IN /\ lastEmit' = [event |-> eventName, payload |-> payload,
                          warned |-> ~isValid, subscribed |-> listeners]
          /\ dispatch' = IF Dispatches(isValid)
                         THEN AfterChain(IdleDispatch, RunNext(middlewares, IdleChain))
                         ELSE [IdleDispatch EXCEPT !.pc = "returned"]
    /\ UNCHANGED <<listeners, invoked, running, errors, middlewares, queueVars,
                   opVars, msgVars, formVars, alertVars, envVars, remVars, proc,
                   gwVars, fjVars, onOverdue, reply, formReminder, errBus>>

ValidateNext ==
    \/ \E h \in BusHandlers : Subscribe(h)
    \/ \E n \in EventNames, pl \in SUBSET PayloadFields : EmitPayload(n, pl)
    \/ \E b \in Behaviours : Invoke(b)
    \/ EmitReturn
    \/ \E h \in BusHandlers, r \in BOOLEAN : Settle(h, r)

SpecValidate == Init /\ [][ValidateNext]_vars

RemindNext ==
    \/ \E z \in Zones : SetTimeZone(z)
    \/ Tick
    \/ \E c \in Convs \cup {NoConv}, t \in ScheduledAts, h \in ReminderHours,
          f \in BOOLEAN : ScheduleReminder(c, t, h, f)
    \/ Broker

SpecRemind == Init /\ [][RemindNext]_vars

ChainNext ==
    \/ \E b \in MwBehaviours : Use(b)
    \/ \E h \in BusHandlers : Subscribe(h)
    \/ EmitStart
    \/ \E i \in 1..MaxMiddlewares : MiddlewareResume(i)
    \/ \E b \in Behaviours : Invoke(b)
    \/ NextRound
    \/ EmitReturn

SpecChain == Init /\ [][ChainNext]_vars

(***************************************************************************)
(* Claims about the unavailable broker.                                    *)
(***************************************************************************)
Broker0 == [jobs |-> jobs, nextAuto |-> nextAuto]

C5_AllReturnNull ==
    \A f \in BOOLEAN, c \in Convs \cup {NoConv} :
        /\ \A n \in JobNames, k \in OptJobIds, d \in Delays :
              AddAutomationJob(Broker0, n, c, k, d, f) = NotScheduled(Broker0)
        /\ \A n \in JobNames, d \in Delays :
              ScheduleDelayedJob(Broker0, n, c, d, f) = NotScheduled(Broker0)
        /\ ScheduleBookingConfirmation(Broker0, c, f) = NotScheduled(Broker0)
        /\ \A t \in ScheduledAts :
              ScheduleBookingReminder(Broker0, c, t, DefaultReminderHours, f)
                  = NotScheduled(Broker0)
        /\ ScheduleFormSubmissionCreation(Broker0, f) = NotScheduled(Broker0)
        /\ ScheduleFormReminder(Broker0, f) = NotScheduled(Broker0)
        /\ ScheduleFormOverdueCheck(Broker0, f) = NotScheduled(Broker0)

\* C5: in every state with the broker unavailable, addAutomationJob and each
\* schedule* function return null and leave the queue as it is for every
\* input; and a booking creation whose scheduling ran with the broker
\* unavailable has returned with its booking committed, three null results and
\* no job enqueued.
C5_DegradesGracefully ==
    /\ ~redisAvailable => C5_AllReturnNull
    /\ \A o \in Ops :
          (op[o].pc = "returned" /\ ~op[o].avail)
              => /\ o \in bookings
                 /\ op[o].results = <<Null, Null, Null>>
                 /\ op[o].enq = 0

\* a public booking 72 hours ahead, created and returned with the broker down
C5_Witness ==
    \E o \in Ops :
        /\ op[o].pc = "returned"
        /\ ~op[o].avail
        /\ op[o].kind = "publicBooking"
        /\ op[o].sched = 72
        /\ o \in bookings
        /\ ~redisAvailable

(***************************************************************************)
(* Claims about the messages sent by the handlers.                         *)
(***************************************************************************)
\* C3: however two executions of the CONTACT_CREATED handler for the same
\* contact interleave at their awaits, at most one welcome message is handed
\* to the provider on each channel.
C3_OneWelcomePerChannel ==
    \A ch \in Channels : sent[<<"Welcome", ch>>] <= 1

\* C6: for one created booking at most one confirmation message is handed to
\* the provider on each channel, whatever the order of the BOOKING_CREATED
\* handler and the sendBookingConfirmation job.
C6_OneConfirmationPerChannel ==
    \A ch \in Channels : sent[<<"confirmed", ch>>] <= 1

(***************************************************************************)
(* Claims about the overdue check and the inventory alerts.                *)
(***************************************************************************)
\* C4: whatever the number and the overlap of the deliveries of its
\* checkFormOverdue job, a form submission is updated to OVERDUE at most once
\* and FORM_OVERDUE is emitted for it at most once.
C4_OverdueExactlyOnce ==
    \A f \in Forms : overdueWrites[f] <= 1 /\ overdueEmits[f] <= 1

\* C7: there is at most one ACTIVE INVENTORY_LOW alert for an inventory item,
\* also while two INVENTORY_LOW events for the item are being handled.
C7_OneActiveAlertPerItem ==
    \A i \in Items : alerts[i] <= 1

(***************************************************************************)
(* Claims about the order of commit and emit.                              *)
(***************************************************************************)
\* C8: every event was emitted when the write of its operation had committed,
\* and no event belongs to an operation whose transaction is open or rolled
\* back.
C8_EmitOnlyAfterCommit ==
    \A e \in emitted : e.tx = "committed" /\ op[e.op].tx = "committed"

(***************************************************************************)
(* Claims about the event bus.                                             *)
(***************************************************************************)
\* C9: emit never throws to its caller; when it has returned, every handler
\* subscribed to the event has been invoked, whichever of them threw; and
\* every handler that threw or rejected has had its error dispatched on the
\* `error' event.
C9_HandlerErrorsIsolated ==
    /\ dispatch.pc # "threw"
    /\ dispatch.pc = "returned" => Range(invoked) = Range(dispatch.snap)
    /\ errors = Cardinality(dispatch.failed)

\* a handler threw, a handler subscribed after it was still invoked, emit
\* returned, and a rejection of awaited work was dispatched as well
C9_Witness ==
    /\ dispatch.pc = "returned"
    /\ errors >= 2
    /\ \E i, j \in DOMAIN invoked :
          /\ i < j
          /\ invoked[i] \in dispatch.failed
          /\ invoked[i] \notin running
          /\ invoked[j] \notin dispatch.failed

\* C10 as stated: no two handlers of one emit are in progress at the same
\* time.
C10_OneHandlerInProgress ==
    Cardinality(running) <= 1

\* C10, amended: the handlers of one emit are started one at a time in
\* subscription order, each when the previous one has run to its first await
\* (or to its end); the work they await is not waited for and may overlap.
C10_StartedInSubscriptionOrder ==
    /\ Len(invoked) <= Len(dispatch.snap)
    /\ \A i \in DOMAIN invoked : invoked[i] = dispatch.snap[i]
    /\ dispatch.pc = "dispatching" => Len(invoked) = dispatch.idx - 1
    /\ running \subseteq Range(invoked)

\* all three handlers started in subscription order, and the awaited work of
\* the first two is in progress together after emit has returned
C10_Witness ==
    /\ dispatch.pc = "returned"
    /\ Len(invoked) = 3
    /\ invoked = listeners
    /\ {invoked[1], invoked[2]} \subseteq running

(***************************************************************************)
(* Claims about the middleware chain.                                      *)
(***************************************************************************)
C11_Chain == dispatch.chain

C11_Complete ==
    /\ C11_Chain.continued = 1..Len(middlewares)
    /\ dispatch.pc = "returned"

\* the middlewares are called in registration order; a handler is invoked
\* only when every middleware has called its continuation; when the chain is
\* complete and emit (or the resumed chain) has returned, the handlers have
\* been invoked once each in subscription order
C11_ChainThenHandlers ==
    /\ \A k \in DOMAIN C11_Chain.log : C11_Chain.log[k] = k
    /\ invoked # <<>> => C11_Chain.continued = 1..Len(middlewares)
    /\ C11_Chain.continued # 1..Len(middlewares) => invoked = <<>>
    /\ dispatch.pc # "idle" => Len(invoked) <= Len(listeners)
    /\ C11_Complete => invoked = listeners

C11_NextAtMostOnce ==
    \A i \in DOMAIN middlewares : middlewares[i] # "callsNextTwice"

C12_ReminderAtLeadTime ==
    /\ \A c \in Convs \cup {NoConv}, t \in ScheduledAts, h \in ReminderHours :
          LET r == ScheduleBookingReminder(Broker0, c, t, h, FALSE)
              id == JobIdFor("sendBookingReminder", c, NoJobId, now, nextAuto)
          IN id \notin DOMAIN jobs =>
               IF t - h <= now
               THEN r.jobs = jobs /\ r.result = Null
               ELSE redisAvailable =>
                      /\ DOMAIN r.jobs = DOMAIN jobs \cup {id}
                      /\ \A j \in DOMAIN jobs : r.jobs[j] = jobs[j]
                      /\ r.jobs[id] =
                            [name |-> "sendBookingReminder", conv |-> c,
                             state |-> "delayed", due |-> t - h]
                      /\ r.result = id
    /\ \A j \in DOMAIN jobs : jobs[j].state # "delayed" => jobs[j].due <= now

(***************************************************************************)
(* Claims about what a cancellation can reach.                             *)
(***************************************************************************)
C13_Removed == {j \in DOMAIN jobs : j \notin DOMAIN jobs' \/ jobs'[j] # jobs[j]}

C13_CancelMoves == cancel'.idx # cancel.idx

\* C13 as stated: every job that a step of the cancellation removes is in the
\* delayed state when it is removed.
C13_RemovesOnlyDelayed ==
    [][C13_CancelMoves => \A j \in C13_Removed : jobs[j].state = "delayed"]_vars

\* C13: the cancellation lists only jobs that are delayed at that moment (a
\* job of C waiting or active then is not listed); each of its steps removes
\* or changes only listed jobs of C, and never a job that is active, so an
\* active job stays with its worker until its processor returns.  A listed
\* job that the broker promoted to waiting in the meantime is still removed.
C13_RemovesOnlyListedDelayed ==
    [][C13_CancelMoves =>
         /\ \A i \in DOMAIN cancel'.snap :
               cancel.pc = "idle" => jobs[cancel'.snap[i].id].state = "delayed"
         /\ \A j \in C13_Removed :
               /\ j \in Matching(cancel.snap, cancel.conv)
               /\ jobs[j].state # "active"]_vars

\* a finished cancellation that removed a job of C while another job of C,
\* not listed because it was not delayed, is still waiting or with a worker
C13_Witness ==
    /\ cancel.pc = "done"
    /\ cancel.result >= 1
    /\ \E j \in DOMAIN jobs :
          /\ jobs[j].conv = cancel.conv
          /\ jobs[j].state \in {"waiting", "active"}
          /\ \A i \in DOMAIN cancel.snap : cancel.snap[i].id # j

(***************************************************************************)
(* Claims about the reminder path.                                         *)
(***************************************************************************)
\* C14: a reminder has been sent, or is about to be, only if the row that the
\* SEND_REMINDER handler read from the repository existed with status
\* CONFIRMED, whatever the snapshot in the job says; a delivery whose re-read
\* found the booking missing or not CONFIRMED ends with no reminder sent.
C14_ReminderOnlyIfRereadConfirmed ==
    /\ (reminded # {} \/ reminder.pc = "send") => reminder.booking = "CONFIRMED"
    /\ (reminder.pc = "done" /\ reminder.booking # "CONFIRMED") => reminded = {}

\* the booking was set to NO_SHOW after scheduling, the handler's re-read saw
\* it, and the delivery ended without a reminder although the job's snapshot
\* says CONFIRMED
C14_Witness ==
    /\ reminder.pc = "done"
    /\ reminder.snapshot = "CONFIRMED"
    /\ reminder.current = "CONFIRMED"
    /\ reminder.booking = "NO_SHOW"
    /\ contact.email
    /\ reminded = {}

(***************************************************************************)
(* Claims about the life of the process.                                   *)
(***************************************************************************)
\* C15: the process never exits with a failure code because the broker
\* reported an error before it was ready: a process that has exited has
\* exited with code 0, at the end of a shutdown.
C15_StartsWithoutBroker == proc.state = "exited" => proc.code = 0

\* C16: once closeQueues has completed, no step adds a job to the queue and
\* no step hands a job to a worker.
C16_NoWorkAfterClose ==
    [][proc.state \in {"queuesClosed", "redisClosed", "exited"}
         => /\ DOMAIN jobs' \subseteq DOMAIN jobs
            /\ \A j \in DOMAIN jobs :
                  jobs'[j].state = "active" => jobs[j].state = "active"]_vars

(***************************************************************************)
(* Claims about the notification gateway.                                  *)
(***************************************************************************)
\* C17: a sendMessage call that has returned has returned a result, with
\* success = false and an error or with success = true, and success = true
\* only if the provider accepted the message during the call.
C17_SuccessOnlyIfProviderSent ==
    gw.pc = "done"
        => /\ gw.result \in {"ok", "fail"}
           /\ gw.result = "fail" => gw.error
           /\ gw.result = "ok" => gw.delivered

\* C18: after the provider rejected an attempt with an authentication or
\* configuration error the retry loop makes no further attempt, and a call
\* that failed on a transient error has made every attempt.
C18_AuthErrorsFailFast ==
    /\ gw.pc = "backoff" => gw.raw \notin AuthCodes
    /\ (gw.pc = "done" /\ gw.result = "fail" /\ gw.raw = "500")
          => gw.attempt = MaxRetries

C19_AttemptInProgress == gw.pc \in {"provider", "markSent", "markFailed"}

C19_LogsWellFormed ==
    /\ \A i \in DOMAIN gwLogs :
          /\ gwLogs[i].status = "FAILED"
                => gwLogs[i].error /\ gwLogs[i].retryCount = 1
          /\ gwLogs[i].status = "SENT"
                => ~gwLogs[i].error /\ gwLogs[i].retryCount = 0
          /\ gwLogs[i].status = "PENDING"
                => i = Len(gwLogs) /\ C19_AttemptInProgress
    /\ gw.pc = "provider" => gwLogs[Len(gwLogs)].status = "PENDING"

C19_LogsMoveFromPending ==
    /\ Len(gwLogs') >= Len(gwLogs)
    /\ \A i \in DOMAIN gwLogs :
          gwLogs'[i] # gwLogs[i]
              => /\ gwLogs[i].status = "PENDING"
                 /\ gwLogs'[i].status \in {"SENT", "FAILED"}

C20_OneSubmissionPerForm ==
    /\ formJob.events = formJob.created
    /\ formJob.created = SubSeq(formJob.forms, 1, Len(formJob.created))
    /\ Range(formJob.forms) \subseteq linkedForms
    /\ Cardinality(Range(formJob.forms)) = Len(formJob.forms)
    /\ (formJob.pc = "done" /\ ~formJob.threw) => formJob.created = formJob.forms
    /\ formJob.forms = <<>> => formJob.created = <<>> /\ formJob.events = <<>>

\* a delivery that has returned after creating two submissions, for the two
\* forms of the booking's type, and emitting two events
C20_Witness ==
    /\ formJob.pc = "done"
    /\ ~formJob.threw
    /\ Len(formJob.created) = 2
    /\ Len(formJob.events) = 2
    /\ Range(formJob.created) = linkedForms

\* C21: over all deliveries of the job, at most one submission has been
\* created for each form of the booking and at most one FormPending event has
\* been emitted for each form.
C21_FormJobIdempotent ==
    LET Times(q, f) == Cardinality({i \in DOMAIN q : q[i] = f})
    IN \A f \in Forms :
          /\ Times(formJob.prior \o formJob.created, f) <= 1
          /\ Times(formJob.priorEvents \o formJob.events, f) <= 1

\* C22: for every form submission, however often FormOverdue is delivered,
\* at most one ACTIVE FORM_OVERDUE alert has been created and the overdue
\* reminder has been sent at most once.
C22_OverdueHandledOnce ==
    \A f \in Forms : onOverdue[f].alerts <= 1 /\ onOverdue[f].reminders <= 1

(***************************************************************************)
(* sendStaffReply (conversation.service.js): the transaction, the          *)
(* STAFF_REPLIED emission, whose handler calls                             *)
(* cancelScheduledJobsByConversation, and the function's own call of it.   *)
(* The two calls advance one await at a time, interleaved.                 *)
(***************************************************************************)
exceptReply ==
    <<redisAvailable, now, nextAuto, cancel, opVars, msgVars, formVars, alertVars,
      busVars, envVars, remVars, proc, gwVars, fjVars, onOverdue, lastEmit,
      formReminder, errBus>>

RepliedConv == "c1"
Callers == {"handler", "direct"}

\* a reply that goes on without a channel
NeverWithoutAddress(channel, email, phone) == FALSE

\* `throw new Error('Contact has no email or phone for messaging')'
WithoutAddress(channel, email, phone) == channel = NoChannel /\ ~email /\ ~phone

\* the transaction: findFirst, the channel, message.create; a throw rolls
\* it back
ReplyTransaction(found, email, phone, channel) ==
    /\ reply.pc = "idle"
    /\ IF ~found
       THEN reply' = [reply EXCEPT !.pc = "failed", !.error = "Conversation not found"]
       ELSE IF WithoutAddress(channel, email, phone)
       THEN reply' = [reply EXCEPT
                        !.pc = "failed",
                        !.error = "Contact has no email or phone for messaging"]
       ELSE reply' = [reply EXCEPT
                        !.pc = "stored",
                        !.channel = IF channel # NoChannel THEN channel
                                    ELSE IF email THEN "EMAIL"
                                    ELSE IF phone THEN "SMS" ELSE NoChannel,
                        !.messages = @ + 1]
    /\ UNCHANGED <<jobs, exceptReply>>

\* cancelScheduledJobsByConversation up to its `await queue.getDelayed()'
ScanStart(c, order) ==
    IF GetQueue = Null THEN [IdleCancel EXCEPT !.pc = "done", !.conv = c]
    ELSE [IdleCancel EXCEPT
            !.pc = "scan", !.conv = c, !.idx = 1,
            !.snap = [i \in DOMAIN order |->
                        [id |-> order[i], conv |-> jobs[order[i]].conv]]]

\* emit(STAFF_REPLIED) runs the handler to its first await, then the direct
\* call reaches the same await: both list the delayed jobs
StaffReplyEmit ==
    /\ reply.pc = "stored"
    /\ \E order \in Perms(DelayedJobs(jobs)) :
          reply' = [reply EXCEPT
                      !.pc = "cancelling",
                      !.staffReplied = @ + 1,
                      !.atSend = {j \in DelayedJobs(jobs) : jobs[j].conv = RepliedConv},
                      !.handler = ScanStart(RepliedConv, order),
                      !.direct = ScanStart(RepliedConv, order)]
    /\ UNCHANGED <<jobs, exceptReply>>

\* one iteration of the loop of one of the two calls; job.remove() of a job
\* that is already gone succeeds, of an active job throws
ReplyScanStep(who) ==
    /\ reply.pc \in {"cancelling", "returned"}
    /\ reply[who].pc = "scan"
    /\ reply[who].idx <= Len(reply[who].snap)
    /\ LET c == reply[who]
           e == c.snap[c.idx]
           j == e.id
       IN IF ~BelongsTo(e.conv, c.conv)
          THEN /\ reply' = [reply EXCEPT ![who].idx = @ + 1]
               /\ UNCHANGED jobs
          ELSE IF j \in DOMAIN jobs /\ jobs[j].state = "active"
          THEN /\ reply' = [reply EXCEPT ![who] =
                              [c EXCEPT !.pc = "done", !.result = 0, !.threw = TRUE,
                                        !.idx = @ + 1]]
               /\ UNCHANGED jobs
          ELSE /\ reply' = [reply EXCEPT
                              ![who] = [c EXCEPT !.idx = @ + 1,
                                                 !.count = CountAfterRemove(@),
                                                 !.removed = @ \cup {j}],
                              !.deleted = IF j \in DOMAIN jobs THEN Append(@, j) ELSE @]
               /\ jobs' = [k \in DOMAIN jobs \ {j} |-> jobs[k]]
    /\ UNCHANGED exceptReply

\* `return cancelledCount' of one of the two calls
ReplyScanReturn(who) ==
    /\ reply.pc \in {"cancelling", "returned"}
    /\ reply[who].pc = "scan"
    /\ reply[who].idx > Len(reply[who].snap)
    /\ reply' = [reply EXCEPT ![who].pc = "done", ![who].result = reply[who].count]
    /\ UNCHANGED <<jobs, exceptReply>>

\* `return {message, cancelledCount}'
ReplyReturn ==
    /\ reply.pc = "cancelling"
    /\ reply.direct.pc = "done"
    /\ reply' = [reply EXCEPT !.pc = "returned", !.cancelledCount = reply.direct.result]
    /\ UNCHANGED <<jobs, exceptReply>>

ReplyInputs == BOOLEAN \X BOOLEAN \X BOOLEAN \X (Channels \cup {NoChannel})

ReplyNext ==
    \/ Tick
    \/ \E c \in Convs \cup {NoConv}, d \in Delays :
          AddJob("sendBookingReminder", c, NoJobId, d, FALSE)
    \/ Broker
    \/ \E i \in ReplyInputs : ReplyTransaction(i[1], i[2], i[3], i[4])
    \/ StaffReplyEmit
    \/ \E who \in Callers : ReplyScanStep(who)
    \/ \E who \in Callers : ReplyScanReturn(who)
    \/ ReplyReturn

SpecReply == Init /\ [][ReplyNext]_vars

(***************************************************************************)
(* The sendFormReminder processor (automationQueue.js) and the event       *)
(* names of the registry.                                                  *)
(***************************************************************************)
\* Events[key] of registry.js, for the keys of the form automation
Events(key) ==
    CASE key = "FORM_PENDING" -> "form.pending"
      [] key = "FORM_COMPLETED" -> "form.completed"
      [] key = "FORM_OVERDUE" -> "form.overdue"
      [] OTHER -> Undefined

\* the handlers registered with on(eventName, ...) that call the adapter's
\* sendFormReminder
ReminderSenders(eventName) ==
    IF eventName = "form.overdue" THEN {"formOverdueHandler"} ELSE {}

\* the worker hands a sendFormReminder job to the processor, which runs up to
\* `await prisma.formSubmission.findUnique'
FormReminderStart(f) ==
    /\ formReminder[f].pc = "idle"
    /\ formReminder' = [formReminder EXCEPT ![f].pc = "findUnique"]
    /\ UNCHANGED <<onOverdue, exceptLate, lastEmit, reply, errBus>>

\* the submission arrives: the two early returns, else
\* emit(Events.SEND_FORM_REMINDER, ...), which reaches the handlers
\* subscribed to that name
FormReminderRead(f) ==
    /\ formReminder[f].pc = "findUnique"
    /\ LET eventName == Events("SEND_FORM_REMINDER")
       IN IF formStatus[f] # "PENDING"
          THEN /\ formReminder' = [formReminder EXCEPT
                                     ![f].pc = "done", ![f].seen = formStatus[f]]
               /\ UNCHANGED onOverdue
          ELSE /\ formReminder' = [formReminder EXCEPT
                                     ![f].pc = "done", ![f].seen = formStatus[f],
                                     ![f].event = eventName]
               /\ onOverdue' = IF ReminderSenders(eventName) # {}
                                THEN [onOverdue EXCEPT ![f].delivered = @ + 1,
                                                       ![f].read = @ + 1]
                                ELSE onOverdue
    /\ UNCHANGED <<exceptLate, lastEmit, reply, errBus>>

\* a call of the adapter's sendFormReminder for the submission was made
ReminderAttempted(f) == onOverdue[f].send + onOverdue[f].reminders > 0

\* one checkFormOverdue job is followed beside the reminder jobs
OverdueCheck == "d1"

FormReminderNext ==
    \/ \E f \in Forms : FormCreate(f)
    \/ \E f \in Forms : OverdueDeliver(OverdueCheck, f)
    \/ OverdueRead(OverdueCheck)
    \/ OverdueUpdate(OverdueCheck)
    \/ \E f \in Forms : OnFormOverdue(f)
    \/ \E f \in Forms : OverdueHandlerRead(f)
    \/ \E f \in Forms : OverdueAlertCreate(f)
    \/ \E f \in Forms : OverdueReminderSent(f)
    \/ \E f \in Forms : FormReminderStart(f)
    \/ \E f \in Forms : FormReminderRead(f)

\* the continuations of the processor and of the handler run once their
\* awaited promise has settled
SpecFormReminder ==
    /\ Init
    /\ [][FormReminderNext]_vars
    /\ \A f \in Forms : /\ WF_vars(FormReminderRead(f))
                        /\ WF_vars(OverdueHandlerRead(f))
                        /\ WF_vars(OverdueAlertCreate(f))
                        /\ WF_vars(OverdueReminderSent(f))

(***************************************************************************)
(* The `error' event: wrappedHandler catches what its handler throws and   *)
(* calls this.emitter.emit('error', err); the handlers of `error' are      *)
(* registered with on() too, so they are wrapped in the same way.          *)
(***************************************************************************)
exceptErrBus == <<exceptLate, onOverdue, lastEmit, reply, formReminder>>

ThrowBehaviours == {"returns", "throws"}

\* the handlers of a list whose wrappedHandler reaches its catch block
Throwers(hs) == Cardinality({i \in DOMAIN hs : hs[i] = "throws"})

\* on(eventName, handler) for the event that is emitted
OnEvent(b) ==
    /\ errBus.pc = "idle"
    /\ Len(errBus.handlers) < MaxErrHandlers
    /\ errBus' = [errBus EXCEPT !.handlers = Append(@, b)]
    /\ UNCHANGED exceptErrBus

\* on('error', handler)
OnError(b) ==
    /\ errBus.pc = "idle"
    /\ Len(errBus.errorHandlers) < 1 + MaxErrHandlers
    /\ errBus' = [errBus EXCEPT !.errorHandlers = Append(@, b)]
    /\ UNCHANGED exceptErrBus

\* one emit of the event: every handler is invoked; those that throw leave
\* their wrappedHandler waiting to run its catch block
EmitOnce ==
    /\ errBus.pc = "idle"
    /\ errBus' = [errBus EXCEPT !.pc = "emitted", !.pending = Throwers(errBus.handlers)]
    /\ UNCHANGED exceptErrBus

\* a catch block runs: this.emitter.emit('error', err) invokes every handler
\* of `error'; those that throw wait for their own catch block
RouteError ==
    /\ errBus.pc = "emitted"
    /\ errBus.pending > 0
    /\ LET waiting == errBus.pending - 1 + Throwers(errBus.errorHandlers)
       IN errBus' = [errBus EXCEPT
                       !.pending = IF waiting > MaxPending THEN MaxPending ELSE waiting,
                       !.routed = (@ + 1) % (MaxRouted + 1)]
    /\ UNCHANGED exceptErrBus

ErrorRouteNext ==
    \/ \E b \in ThrowBehaviours : OnEvent(b)
    \/ \E b \in ThrowBehaviours : OnError(b)
    \/ EmitOnce
    \/ RouteError

\* a catch block that is waiting runs
SpecErrorRoute == Init /\ [][ErrorRouteNext]_vars /\ WF_vars(RouteError)

\* C23: an event name without registered metadata passes validation with any
\* payload; a payload that lacks a required field produces a warning and
\* nothing else: when emit has returned, every handler that was subscribed
\* when it was called has been invoked, in order; emit never throws, and with
\* no handler subscribed it returns without any error dispatched.
C23_InvalidPayloadStillDispatched ==
    /\ \A pl \in SUBSET PayloadFields : ValidateEventPayload("form.overdue", pl)
    /\ lastEmit.warned <=> /\ HasMetadata(lastEmit.event)
                           /\ ~(RequiredFields(lastEmit.event) \subseteq lastEmit.payload)
    /\ dispatch.pc # "threw"
    /\ dispatch.pc = "returned" => invoked = lastEmit.subscribed
    /\ (dispatch.pc = "returned" /\ lastEmit.subscribed = <<>>) => errors = 0

\* an emit of a registered event without its bookingId field has returned
\* after a warning, and the two subscribed handlers were invoked
C23_Witness ==
    /\ dispatch.pc = "returned"
    /\ lastEmit.event = "booking.deleted"
    /\ lastEmit.payload = {"workspaceId"}
    /\ lastEmit.warned
    /\ Len(invoked) = 2

\* C24: when cancelScheduledJobsByConversation has returned, the number it
\* returns is the number of jobs it removed, also when a later job.remove()
\* failed after earlier ones had succeeded.
C24_ReturnsRemovedCount ==
    cancel.pc = "done" => cancel.result = Cardinality(cancel.removed)

\* C25: when sendStaffReply has returned, its cancelledCount is the number of
\* delayed jobs of the conversation that were in the queue when the reply was
\* sent, each of them has been deleted from the queue exactly once, and the
\* returned value counted each once, although the handler and the direct call
\* worked through the same jobs.
C25_CountsJobsAtSend ==
    reply.pc = "returned" =>
        /\ reply.cancelledCount = Cardinality(reply.atSend)
        /\ reply.direct.removed = reply.atSend
        /\ \A j \in reply.atSend :
              Cardinality({i \in DOMAIN reply.deleted : reply.deleted[i] = j}) = 1

\* C30: a sendStaffReply that failed, because the conversation was not found
\* in the workspace or because no channel was given and the contact has
\* neither email nor phone, has stored no message, emitted no StaffReplied
\* and started no cancellation, so it removed no job; a reply that stored its
\* message had a conversation and a channel.
C30_FailedReplyChangesNothing ==
    /\ reply.pc = "failed" =>
          /\ reply.error # NoError
          /\ reply.messages = 0
          /\ reply.staffReplied = 0
          /\ reply.handler = IdleCancel /\ reply.direct = IdleCancel
          /\ reply.deleted = <<>>
    /\ reply.messages > 0 => (reply.error = NoError /\ reply.channel \in Channels)

\* a reply failed for want of an address while a delayed job of the
\* conversation is in the queue
C30_Witness ==
    /\ reply.pc = "failed"
    /\ reply.error = "Contact has no email or phone for messaging"
    /\ \E j \in DelayedJobs(jobs) : jobs[j].conv = RepliedConv

\* C26: every delayed sendBookingReminder job in the queue carries a
\* conversationId in its data, whether booking.service create or
\* createPublicBooking enqueued it.
C26_ReminderHasConversation ==
    \A j \in DelayedJobs(jobs) :
        jobs[j].name = "sendBookingReminder" => jobs[j].conv # NoConv

\* C27: a sendFormReminder job that found its submission PENDING is followed
\* by a form reminder to the contact being attempted; a job that found the
\* submission missing or not PENDING emitted nothing.
C27_PendingReminderAttempted ==
    /\ [](\A f \in Forms :
            (formReminder[f].pc = "done" /\ formReminder[f].seen # "PENDING")
                => formReminder[f].event = NoEvent)
    /\ \A f \in Forms :
          (formReminder[f].pc = "done" /\ formReminder[f].seen = "PENDING")
              ~> ReminderAttempted(f)

\* C28: after one emit the re-routing of handler failures to `error' comes to
\* an end: no caught error is left to be emitted, also when a handler
\* subscribed to `error' throws.
C28_ErrorRoutingTerminates == (errBus.pc = "emitted") ~> (errBus.pending = 0)

\* C29: the idempotency check of the BOOKING_CREATED handler ends a handler
\* without sending only when the confirmation of that handler's own booking
\* was logged before; with two different bookings of one contact, each
\* confirmed by its own handler alone, no handler is ended by the check.
C29_SecondBookingStillConfirmed ==
    [][\A h \in Handlers :
          handler[h].pc = "findFirst" => handler'[h].pc # "done"]_vars

====
